---- MODULE Spec2Model ----
(***************************************************************************)
(* FxDK adaptation of Code-OSS: the HTTP / WebSocket server                *)
(* (src/unnamed/part_001), the game-view custom element                    *)
(* (src/unnamed/part_003), and the browser side: the credentials provider  *)
(* and web socket factory of workbench.ts and the bootstrap of             *)
(* fxdk.main.ts.                                                           *)
(*                                                                         *)
(* Strings are sequences of tokens.  A token is one character ("/", "."),  *)
(* one whole name ("static", "a", "app"), or one percent escape of the     *)
(* request line ("%2e", "%2f", and the undecodable "%zz").  Paths follow   *)
(* the POSIX flavour of Node's path module.                                *)
(***************************************************************************)
EXTENDS Integers, Sequences, FiniteSets, TLC

\* ------------------------------------------------------------------------
\* Bounds
\* ------------------------------------------------------------------------

\* Tokens of a request pathname after its leading "/".
MaxPathLen == 4

\* HTTP requests being handled at the same time.
MaxInFlight == 2

\* Web sockets the workbench has the factory create.
MaxSockets == 3

\* ------------------------------------------------------------------------
\* Strings and paths
\* ------------------------------------------------------------------------

SLASH == "/"

DOT == "."

\* The tokens a request pathname is made of.
PathTokens == {"/", ".", "static", "a", "%2e", "%2f", "%zz"}

RECURSIVE SeqsUpTo(_, _)
\* All sequences over S of length at most n.
SeqsUpTo(S, n) ==
  IF n = 0 THEN {<<>>}
  ELSE LET shorter == SeqsUpTo(S, n - 1)
       IN  shorter \cup {Append(s, t) : s \in {x \in shorter : Len(x) = n - 1}, t \in S}

\* APP_ROOT = path.join(__dirname, '../../../..'), an absolute directory.
APP_ROOT == <<"/", "app">>

\* The workbench pages, below APP_ROOT.
WEB_MAIN == APP_ROOT \o <<"/", "out", "/", "workbench.html">>

WEB_MAIN_DEV == APP_ROOT \o <<"/", "out", "/", "workbench-dev.html">>

devMode == TRUE

\* One token of decodeURIComponent: a valid escape becomes its character.
DecodeToken(t) ==
  CASE t = "%2e" -> "."
    [] t = "%2f" -> "/"
    [] OTHER -> t

\* decodeURIComponent throws URIError on a malformed escape.
DecodeThrows(s) == \E i \in 1..Len(s) : s[i] = "%zz"

decodeURIComponent(s) == [i \in 1..Len(s) |-> DecodeToken(s[i])]

RECURSIVE Split(_)
\* The segments of a string between its "/" separators.
Split(s) ==
  IF \A i \in 1..Len(s) : s[i] # SLASH THEN <<s>>
  ELSE LET k == CHOOSE i \in 1..Len(s) : s[i] = SLASH /\ \A j \in 1..(i - 1) : s[j] # SLASH
       IN  <<SubSeq(s, 1, k - 1)>> \o Split(SubSeq(s, k + 1, Len(s)))

RECURSIVE JoinSegs(_)
\* Segments joined with "/".
JoinSegs(segs) ==
  IF Len(segs) = 0 THEN <<>>
  ELSE IF Len(segs) = 1 THEN segs[1]
  ELSE segs[1] \o <<SLASH>> \o JoinSegs(Tail(segs))

DotDot == <<DOT, DOT>>

RECURSIVE NormalizeSegs(_, _, _)
\* normalizeString of Node's path module: drops empty and "." segments, lets
\* ".." remove the segment before it, and keeps a leading ".." only when the
\* path is relative (allowAboveRoot).
NormalizeSegs(segs, res, allowAboveRoot) ==
  IF Len(segs) = 0 THEN res
  ELSE LET seg == Head(segs)
           rest == Tail(segs)
       IN  IF seg = <<>> \/ seg = <<DOT>> THEN NormalizeSegs(rest, res, allowAboveRoot)
           ELSE IF seg = DotDot THEN
             IF Len(res) > 0 /\ res[Len(res)] # DotDot
               THEN NormalizeSegs(rest, SubSeq(res, 1, Len(res) - 1), allowAboveRoot)
             ELSE IF allowAboveRoot
               THEN NormalizeSegs(rest, Append(res, DotDot), allowAboveRoot)
             ELSE NormalizeSegs(rest, res, allowAboveRoot)
           ELSE NormalizeSegs(rest, Append(res, seg), allowAboveRoot)

\* path.normalize
normalize(p) ==
  IF Len(p) = 0 THEN <<DOT>>
  ELSE LET isAbsolute == p[1] = SLASH
           trailingSeparator == p[Len(p)] = SLASH
           body == JoinSegs(NormalizeSegs(Split(p), <<>>, ~isAbsolute))
       IN  IF Len(body) = 0
             THEN IF isAbsolute THEN <<SLASH>>
                  ELSE IF trailingSeparator THEN <<DOT, SLASH>> ELSE <<DOT>>
           ELSE LET withSep == IF trailingSeparator THEN Append(body, SLASH) ELSE body
                IN  IF isAbsolute THEN <<SLASH>> \o withSep ELSE withSep

\* path.join of two strings
join(a, b) ==
  IF Len(a) = 0 /\ Len(b) = 0 THEN <<DOT>>
  ELSE IF Len(a) = 0 THEN normalize(b)
  ELSE IF Len(b) = 0 THEN normalize(a)
  ELSE normalize(a \o <<SLASH>> \o b)

\* ------------------------------------------------------------------------
\* HTTP requests and responses
\* ------------------------------------------------------------------------

\* fs.Stats of a file: the fields the ETag is made of.
Stats ==
  {[ok |-> TRUE, ino |-> 7, size |-> 1, mtime |-> 1],
   [ok |-> TRUE, ino |-> 7, size |-> 1, mtime |-> 2]}

\* What fs.promises.stat can yield: a Stats object, or a rejection (ok is
\* FALSE).
ENOENT == [ok |-> FALSE, ino |-> 0, size |-> 0, mtime |-> 0]

StatOutcomes == Stats \cup {ENOENT}

\* `W/"${[stat.ino, stat.size, stat.mtime.getTime()].join('-')}"`
Etag(stat) == <<"W/", stat.ino, "-", stat.size, "-", stat.mtime>>

NoHeader == <<>>

\* Values of the If-None-Match request header.
IfNoneMatchValues == {NoHeader} \cup {Etag(s) : s \in Stats}

\* parsedUrl.query['path'] after url.parse(req.url, true): undefined, an array
\* (the parameter is repeated) or one string.
NoParam == [kind |-> "absent", val |-> <<>>]

ArrayParam == [kind |-> "array", val |-> <<>>]

StringParam(v) == [kind |-> "string", val |-> v]

PathParams ==
  {NoParam, ArrayParam, StringParam(<<>>), StringParam(<<"/", "etc", "/", "passwd">>),
   StringParam(<<"/", "app", "/", ".", ".", "/", "etc", "/", "passwd">>)}

\* What a request carries to identify its sender (a Cookie or Authorization
\* header, a tkn query parameter): nothing, or a credential.
NoAuth == <<>>

AuthValues == {NoAuth, <<"vscode-tkn">>}

\* The request pathnames: url.parse leaves no pathname (null) for a request
\* target without a path, and otherwise the target's path, which starts "/".
Pathnames(n) == {<<>>} \cup {<<SLASH>> \o s : s \in SeqsUpTo(PathTokens, n)}

REMOTE_RESOURCE == <<"/", "vscode-remote-resource">>

MANIFEST == <<"/", "manifest.json">>

\* A small set of pathnames that takes every route of the handler.
RoutePathnames ==
  { <<>>, <<"/">>, MANIFEST, REMOTE_RESOURCE,
    <<"/", "static", "/", "a">>, <<"/", "a">>, <<"/", "%zz">> }

\* An http.IncomingMessage: req.url (absent, or parsed into pathname and the
\* path query parameter), req.headers['if-none-match'], and the credential the
\* request carries.
Requests(pathnames, params, auths) ==
  [hasUrl : {TRUE}, pathname : pathnames, pathParam : params, inm : IfNoneMatchValues,
   auth : auths]
    \cup [hasUrl : {FALSE}, pathname : {<<>>}, pathParam : {NoParam}, inm : {NoHeader},
          auth : {NoAuth}]

NoRequest ==
  [hasUrl |-> FALSE, pathname |-> <<>>, pathParam |-> NoParam, inm |-> NoHeader,
   auth |-> NoAuth]

\* An entry given to the log service: logService.error or logService.info.
LogError(msg) == [level |-> "error", msg |-> msg]

LogInfo(msg) == [level |-> "info", msg |-> msg]

\* An http.ServerResponse: the status and headers of writeHead, the body, and
\* whether end() was reached.  status 0: nothing written yet.
NoResponse ==
  [status |-> 0, ctype |-> "", etag |-> NoHeader, body |-> <<>>, ended |-> FALSE]

\* serveError(req, res, errorCode, errorMessage)
serveError(errorCode, errorMessage) ==
  [status |-> errorCode, ctype |-> "text/plain", etag |-> NoHeader,
   body |-> <<errorMessage>>, ended |-> TRUE]

\* res.writeHead(200, {'Content-Type': 'application/json'}); res.end(JSON.stringify(...))
ManifestResponse ==
  [status |-> 200, ctype |-> "application/json", etag |-> NoHeader,
   body |-> <<"manifest">>, ended |-> TRUE]

\* textMimeType.get(path.extname(filePath)) || getMediaMime(filePath) || 'text/plain'
ContentType(filePath) ==
  IF Len(filePath) > 0 /\ filePath[Len(filePath)] \in {"workbench.html", "workbench-dev.html"}
    THEN "text/html"
    ELSE "text/plain"

\* URI.from({ scheme: 'file', path }).fsPath: the path of a file URI, which is
\* made absolute ("" becomes "/").
fsPath(path) ==
  IF Len(path) = 0 THEN <<SLASH>>
  ELSE IF path[1] # SLASH THEN <<SLASH>> \o path
  ELSE path

\* ------------------------------------------------------------------------
\* The request handler of http.createServer
\* ------------------------------------------------------------------------

\* /^\/static\//.test(pathname)
IsStaticPrefixed(pathname) ==
  Len(pathname) >= 3 /\ SubSeq(pathname, 1, 3) = <<"/", "static", "/">>

\* The part of the pathname that is decoded: pathname.substr('/static/'.length)
\* under the /static/ prefix, the whole pathname otherwise.
StaticSubject(pathname) ==
  IF IsStaticPrefixed(pathname) THEN SubSeq(pathname, 4, Len(pathname)) ELSE pathname

\* path.join(APP_ROOT, path.normalize(decodeURIComponent(...)))
StaticFilePath(pathname) ==
  join(APP_ROOT, normalize(decodeURIComponent(StaticSubject(pathname))))

\* What the synchronous part of the handler decides for a request: a response
\* written at once, or a file handed to serveFile.  logged: the entries given
\* to logService.error on the way.
Respond(route, res, logged) ==
  [kind |-> "respond", route |-> route, res |-> res, filePath |-> <<>>, logged |-> logged]

Serve(route, filePath) ==
  [kind |-> "serve", route |-> route, res |-> NoResponse, filePath |-> filePath,
   logged |-> <<>>]

\* The catch block of the handler.
OnHandlerError ==
  Respond("static", serveError(500, "Internal Server Error."), <<LogError("URIError")>>)

\* Mutant: the route behind a credential check.
RemoteResourceAuthorized(req) ==
  IF req.auth = NoAuth
    THEN Respond("remote", serveError(400, "Bad Request."), <<>>)
  ELSE IF req.pathParam.kind = "string"
    THEN Serve("remote", fsPath(req.pathParam.val))
  ELSE Respond("remote", serveError(400, "Bad Request."), <<>>)

\* Mutant: the route without the typeof test of the path parameter.
RemoteResourceUntyped(req) == Serve("remote", fsPath(req.pathParam.val))

\* The /vscode-remote-resource route.
RemoteResource(req) ==
  IF req.pathParam.kind = "string"
    THEN Serve("remote", fsPath(req.pathParam.val))
    ELSE Respond("remote", serveError(400, "Bad Request."), <<>>)

\* The static route: every pathname that is not empty.
StaticRoute(req) ==
  IF DecodeThrows(StaticSubject(req.pathname))
    THEN OnHandlerError
    ELSE Serve("static", StaticFilePath(req.pathname))

\* The handler up to its first await.
Route(req) ==
  IF ~req.hasUrl THEN Respond("nourl", serveError(400, "Bad Request."), <<>>)
  ELSE IF req.pathname = REMOTE_RESOURCE THEN RemoteResource(req)
  ELSE IF req.pathname = <<"/">> THEN Serve("main", IF devMode THEN WEB_MAIN_DEV ELSE WEB_MAIN)
  ELSE IF req.pathname = MANIFEST THEN Respond("manifest", ManifestResponse, <<>>)
  ELSE IF Len(req.pathname) > 0 THEN StaticRoute(req)
  ELSE Respond("none", serveError(404, "Not found."), <<LogError("not found")>>)

\* Mutant: the catch block of serveFile answering like the handler's catch.
NotFoundAsServerError == serveError(500, "Internal Server Error.")

\* The catch block of serveFile: 404 and 'Not found'.
NotFoundResponse ==
  [status |-> 404, ctype |-> "text/plain", etag |-> NoHeader,
   body |-> <<"Not found">>, ended |-> TRUE]

\* res.writeHead(304); res.end()
NotModifiedResponse ==
  [status |-> 304, ctype |-> "", etag |-> NoHeader, body |-> <<>>, ended |-> TRUE]

\* res.writeHead(200, responseHeaders), the body still to be piped.
OkHead(filePath, st) ==
  [status |-> 200, ctype |-> ContentType(filePath), etag |-> Etag(st),
   body |-> <<>>, ended |-> FALSE]

\* Mutant: serveFile without the If-None-Match test.
ServeFileResponseUnconditional(req, filePath, st) ==
  IF ~st.ok THEN NotFoundResponse ELSE OkHead(filePath, st)

\* serveFile once fs.promises.stat has settled with st.
ServeFileResponse(req, filePath, st) ==
  IF ~st.ok THEN NotFoundResponse
  ELSE IF req.inm = Etag(st) THEN NotModifiedResponse
  ELSE OkHead(filePath, st)

\* ------------------------------------------------------------------------
\* The 'upgrade' handler
\* ------------------------------------------------------------------------

\* Values of the Upgrade request header ("": no such header).
UpgradeHeaders == {"", "websocket", "WebSocket", "h2c"}

\* query['reconnectionToken'] after url.parse(req.url, true).
TokenParams ==
  {NoParam, ArrayParam, StringParam(<<>>), StringParam(<<"t1">>), StringParam(<<"t2">>)}

\* Values of the Sec-WebSocket-Key header (<<>>: no such header).
WebSocketKeys == {<<>>, <<"k1">>}

\* An upgrade request: the Upgrade header, req.url (absent, or its pathname and
\* reconnectionToken parameter), Sec-WebSocket-Key, and whether
\* Sec-WebSocket-Extensions names permessage-deflate.
UpgradeRequests ==
  [upgrade : UpgradeHeaders, hasUrl : {TRUE}, pathname : {<<"/">>, <<"/", "a">>},
   token : TokenParams, key : WebSocketKeys, deflateOffered : BOOLEAN]
    \cup [upgrade : UpgradeHeaders, hasUrl : {FALSE}, pathname : {<<>>},
          token : {NoParam}, key : {<<>>}, deflateOffered : {FALSE}]

NoUpgrade ==
  [upgrade |-> "", hasUrl |-> FALSE, pathname |-> <<>>, token |-> NoParam,
   key |-> <<>>, deflateOffered |-> FALSE]

\* Mutant: && in place of ||.
FailsHeaderCheckBoth(req) == req.upgrade # "websocket" /\ ~req.hasUrl

\* req.headers['upgrade'] !== 'websocket' || !req.url
FailsHeaderCheck(req) == req.upgrade # "websocket" \/ ~req.hasUrl

\* Mutant: the token taken without the typeof test, so that a repeated
\* parameter (an array) counts as a token.
TokenOfUntyped(req) ==
  IF req.token.kind = "array" THEN <<"t1", "t2">> ELSE req.token.val

\* The token the handler extracts: the parameter when it is one string, else
\* undefined (<<>>); an empty string is falsy like undefined.
TokenOf(req) == IF req.token.kind = "string" THEN req.token.val ELSE <<>>

\* sha1(acceptKey + GUID) in base64
AcceptHash(key) == <<"sha1">> \o key \o <<"258EAFA5-E914-47DA-95CA-C5AB0DC85B11">>

\* socket.end('HTTP/1.1 400 Bad Request') after logService.error(why)
Reject(req, why) ==
  [pc |-> "ended", req |-> req, events |-> <<"HTTP/1.1 400 Bad Request", "end">>,
   accept |-> <<>>, deflate |-> FALSE, logged |-> <<why>>]

\* Mutant: the socket handed over before the handshake is written.
HandshakeAfterHandoff(req) ==
  [pc |-> "open", req |-> req,
   events |-> <<"handleWebSocket", "HTTP/1.1 101 Web Socket Protocol Handshake">>,
   accept |-> AcceptHash(req.key), deflate |-> req.deflateOffered,
   logged |-> <<LogInfo("socket upgraded")>>]

\* The handshake is written, then the socket is handed to
\* vscode.handleWebSocket.
Handshake(req) ==
  [pc |-> "open", req |-> req,
   events |-> <<"HTTP/1.1 101 Web Socket Protocol Handshake", "handleWebSocket">>,
   accept |-> AcceptHash(req.key), deflate |-> req.deflateOffered,
   logged |-> <<LogInfo("socket upgraded")>>]

\* The whole handler, which runs without yielding up to the call of
\* vscode.handleWebSocket.
UpgradeOutcome(req) ==
  IF FailsHeaderCheck(req) THEN Reject(req, LogError("failed to upgrade"))
  ELSE IF TokenOf(req) = <<>> THEN Reject(req, LogError("missing token"))
  ELSE Handshake(req)

\* ------------------------------------------------------------------------
\* The game-view element: keys, buttons and bridge calls
\* ------------------------------------------------------------------------

ModeControling == 0

ModeObserving == 1

\* mapMouseButton: the middle and right buttons change places.
mapMouseButton(button) ==
  IF button = 2 THEN 1
  ELSE IF button = 1 THEN 2
  ELSE button

\* mapKey: Alt, Ctrl and Shift become their left or right virtual key.
mapKey(which, location) ==
  IF which = 18 THEN (IF location = 1 THEN 164 ELSE 165)
  ELSE IF which = 17 THEN (IF location = 1 THEN 162 ELSE 163)
  ELSE IF which = 16 THEN (IF location = 1 THEN 160 ELSE 161)
  ELSE which

\* The keyboard events delivered: "a", left Shift, Escape, Shift+Escape, F1.
\* keyLen is e.key.length.
KeyEvents ==
  { [key |-> "a", keyLen |-> 1, which |-> 65, location |-> 0, shiftKey |-> FALSE],
    [key |-> "Shift", keyLen |-> 5, which |-> 16, location |-> 1, shiftKey |-> TRUE],
    [key |-> "Escape", keyLen |-> 6, which |-> 27, location |-> 0, shiftKey |-> FALSE],
    [key |-> "Escape", keyLen |-> 6, which |-> 27, location |-> 0, shiftKey |-> TRUE],
    [key |-> "F1", keyLen |-> 2, which |-> 112, location |-> 0, shiftKey |-> FALSE] }

\* The indices of _keysState that the key events can set.
VirtualKeys == {mapKey(e.which, e.location) : e \in KeyEvents}

\* e.button of the mouse events: left, middle, right.
MouseButtons == {0, 1, 2}

\* isLMB
isLMB(button) == button = 0

\* A call of one of the global bridge functions: fn(n, b) for setKeyState and
\* setMouseButtonState, fn(b) for setRawMouseCapture, fn(s) for setInputChar
\* and fn(n) for sendMouseWheel.
Call(fn, n, s, b) == [fn |-> fn, n |-> n, s |-> s, b |-> b]

setKeyState(vk, active) == Call("setKeyState", vk, "", active)

setMouseButtonState(button, active) == Call("setMouseButtonState", button, "", active)

setRawMouseCapture(active) == Call("setRawMouseCapture", 0, "", active)

setInputChar(char) == Call("setInputChar", 0, char, FALSE)

sendMouseWheel(delta) == Call("sendMouseWheel", delta, "", FALSE)

\* The code of a key as setInputChar(e.which) passes it.
CharOfCode(which) ==
  CASE which = 16 -> "16"
    [] which = 27 -> "27"
    [] which = 112 -> "112"
    [] OTHER -> "65"

RECURSIVE Ascending(_)
\* The members of a set of integers, in ascending order: the order in which
\* Array.prototype.map visits the indices of an array.
Ascending(S) ==
  IF S = {} THEN <<>>
  ELSE LET m == CHOOSE a \in S : \A b \in S : a <= b
       IN  <<m>> \o Ascending(S \ {m})

\* The bridge calls of _resetStates for the given _keysState and _buttonsState.
ResetCalls(keys, buttons) ==
  LET ks == Ascending({k \in DOMAIN keys : keys[k]})
      bs == Ascending({b \in DOMAIN buttons : buttons[b]})
  IN  <<setInputChar("\\0")>>
        \o [i \in 1..Len(ks) |-> setKeyState(ks[i], FALSE)]
        \o [i \in 1..Len(bs) |-> setMouseButtonState(bs[i], FALSE)]

\* The keys and the buttons the host holds pressed, as it has been told.
Held(keys, buttons) == [keys |-> keys, buttons |-> buttons]

RECURSIVE HostAfter(_, _)
\* What the host holds after the bridge calls, in their order: setKeyState
\* and setMouseButtonState press or release the code they are given.
HostAfter(held, calls) ==
  IF calls = <<>> THEN held
  ELSE LET c == Head(calls)
           next == CASE c.fn = "setKeyState" ->
                          Held(IF c.b THEN held.keys \cup {c.n} ELSE held.keys \ {c.n},
                               held.buttons)
                     [] c.fn = "setMouseButtonState" ->
                          Held(held.keys,
                               IF c.b THEN held.buttons \cup {c.n} ELSE held.buttons \ {c.n})
                     [] OTHER -> held
       IN  HostAfter(next, Tail(calls))

\* ------------------------------------------------------------------------
\* The credentials provider (workbench.ts)
\* ------------------------------------------------------------------------

Services == {"s1", "s2"}

Accounts == {"a1", "a2"}

Passwords == {"p1", "p2"}

\* The account argument when it is not a string.
NoAccount == "undefined"

\* The null that getPassword returns.
Null == "null"

\* ICredential
Credential(service, account, password) ==
  [service |-> service, account |-> account, password |-> password]

\* The _credentials field: undefined until the getter has run, then an array.
Undefined == [loaded |-> FALSE, list |-> <<>>]

Loaded(list) == [loaded |-> TRUE, list |-> list]

\* window.localStorage under CREDENTIALS_OPENED_KEY: no item, or the JSON
\* text of an array, kept here as a sequence of its objects' values.
NothingStored == [present |-> FALSE, items |-> <<>>]

\* JSON.stringify(this.credentials)
Stringify(list) ==
  [present |-> TRUE,
   items |-> [k \in 1..Len(list) |-> <<list[k].service, list[k].account, list[k].password>>]]

\* JSON.parse(serializedCredentials)
Parse(stored) ==
  [k \in 1..Len(stored.items) |->
     Credential(stored.items[k][1], stored.items[k][2], stored.items[k][3])]

\* The credentials getter: the cached array, or on first use what the local
\* storage holds ([] when it holds nothing).
credentials(cached, stored) ==
  IF cached.loaded THEN cached.list
  ELSE IF stored.present THEN Parse(stored)
  ELSE <<>>

\* getPassword: the password of the first credential of the service whose
\* account is the one asked for (any account, when none is given).
getPassword(list, service, account) ==
  LET hits == {k \in 1..Len(list) :
                 /\ list[k].service = service
                 /\ account = NoAccount \/ account = list[k].account}
  IN  IF hits = {} THEN Null
      ELSE list[CHOOSE k \in hits : \A h \in hits : k <= h].password

\* The array deletePassword leaves: every credential of (service, account) is
\* filtered out.
Filtered(list, service, account) ==
  LET Keep(c) == ~(c.service = service /\ c.account = account)
  IN  SelectSeq(list, Keep)

\* Mutant: setPassword without its deletePassword.
PushedOnly(list, service, account, password) ==
  Append(list, Credential(service, account, password))

\* The array setPassword leaves: deletePassword, then push.
Pushed(list, service, account, password) ==
  Append(Filtered(list, service, account), Credential(service, account, password))

\* ------------------------------------------------------------------------
\* The web socket factory (workbench.ts)
\* ------------------------------------------------------------------------

\* RemoteAuthorityResolverErrorCode
NotAvailable == "NotAvailable"

TemporarilyNotAvailable == "TemporarilyNotAvailable"

\* new RemoteAuthorityResolverError(message, code)
ResolverError(message, code) == [resolver |-> TRUE, message |-> message, code |-> code]

\* A value that is not a RemoteAuthorityResolverError: an Event, an Error.
PlainError(message) == [resolver |-> FALSE, message |-> message, code |-> ""]

NoError == PlainError("")

\* What the socket of defaultWebSocketFactory passes to its onError listeners:
\* the 'error' event of the WebSocket, or a RemoteAuthorityResolverError the
\* socket made of its close event, with the code it gave it.
SocketErrors ==
  { PlainError("error"),
    ResolverError("Browser is offline", TemporarilyNotAvailable),
    ResolverError("WebSocket close", NotAvailable) }

\* Mutant: the listener without its test of _state.
FiredWhateverState(state, e) ==
  IF ~e.resolver THEN ResolverError("WebSocket closed", TemporarilyNotAvailable) ELSE e

\* Mutant: the listener without its instanceof test.
FiredAlwaysWrapped(state, e) ==
  IF state = "terminated" THEN ResolverError("workspace stopped", NotAvailable)
  ELSE ResolverError("WebSocket closed", TemporarilyNotAvailable)

\* The listener of socket.onError: what it fires on the wrapped onError for
\* the error e, with _state being state.
Fired(state, e) ==
  LET stopped == IF state = "terminated"
                   THEN ResolverError("workspace stopped", NotAvailable)
                   ELSE e
  IN  IF ~stopped.resolver
        THEN ResolverError("WebSocket closed", TemporarilyNotAvailable)
        ELSE stopped

\* What webSocketFactory.create throws (NoError: nothing).
CreateThrows(state) ==
  IF state = "terminated" THEN ResolverError("workspace stopped", NotAvailable) ELSE NoError

\* ------------------------------------------------------------------------
\* The browser bootstrap (fxdk.main.ts)
\* ------------------------------------------------------------------------

\* Schemas.vscodeRemote, Schemas.vscodeUserData, Schemas.tmp, Schemas.file
vscodeRemote == "vscode-remote"

vscodeUserData == "vscode-userdata"

tmp == "tmp"

file == "file"

\* The schemes for which code outside BrowserMain registers providers.
OpenSchemes == {vscodeRemote, file}

\* The class of a registered provider ("none": the scheme has no provider).
ProviderKinds == {"RemoteFileSystemProvider", "InMemoryFileSystemProvider",
                  "FileUserDataProvider", "Other"}

\* Mutant: the listener without its instanceof test of the provider.
ListenerMatchesAnyProvider(added, kind, scheme) == added /\ scheme = vscodeRemote

\* The test of the onDidChangeFileSystemProviderRegistrations listener.
ListenerMatches(added, kind, scheme) ==
  added /\ kind = "RemoteFileSystemProvider" /\ scheme = vscodeRemote

\* seq with x appended unless it is in it already.
Noted(seq, x) == IF \E k \in DOMAIN seq : seq[k] = x THEN seq ELSE Append(seq, x)

\* ------------------------------------------------------------------------
\* The search result model of the settings tree (fxdk.d.ts)
\* ------------------------------------------------------------------------

MaxMatches == 2

SettingKeys == {"editor.fontSize", "files.autoSave"}

Scores == {1, 2}

\* An ISettingMatch: its setting's key, and a score that tells apart two
\* matches of one setting.
SettingMatch(key, score) == [key |-> key, score |-> score]

SettingMatches == {SettingMatch(key, score) : key \in SettingKeys, score \in Scores}

\* An ISearchResult, and the undefined and the null that stand in its place.
SearchResult(filterMatches) == [is |-> "object", filterMatches |-> filterMatches]

UndefinedResult == [is |-> "undefined", filterMatches |-> <<>>]

NullResult == [is |-> "null", filterMatches |-> <<>>]

RECURSIVE MatchSeqs(_)
MatchSeqs(n) ==
  IF n = 0 THEN {<<>>}
  ELSE LET shorter == MatchSeqs(n - 1)
       IN  shorter \cup {Append(q, m) : q \in {r \in shorter : Len(r) = n - 1},
                                        m \in SettingMatches}

\* The results setResult is called with.
SearchResults == {SearchResult(q) : q \in MatchSeqs(MaxMatches)} \cup {NullResult}

\* SearchResultIdx
Local == 0

Remote == 1

\* An ISearchResult[] field or return value: undefined, null, [] or an array
\* read at SearchResultIdx.Local and SearchResultIdx.Remote.
UndefinedResults ==
  [is |-> "undefined", local |-> UndefinedResult, remote |-> UndefinedResult]

NullResults == [is |-> "null", local |-> UndefinedResult, remote |-> UndefinedResult]

EmptyResults == [is |-> "empty", local |-> UndefinedResult, remote |-> UndefinedResult]

ResultArray(local, remote) == [is |-> "array", local |-> local, remote |-> remote]

\* The keys that localMatchKeys holds.
localMatchKeys(localResult) ==
  IF localResult.is = "object"
    THEN {localResult.filterMatches[k].key : k \in DOMAIN localResult.filterMatches}
    ELSE {}

\* The array getUniqueResults builds from the raw results: clones of both,
\* the remote one without the matches whose key is among the local ones.
UniqueResults(raw) ==
  LET localResult == raw.local
      keys == localMatchKeys(localResult)
      Fresh(m) == m.key \notin keys
      remoteResult ==
        IF raw.remote.is = "object"
          THEN SearchResult(SelectSeq(raw.remote.filterMatches, Fresh))
          ELSE raw.remote
  IN  ResultArray(localResult, remoteResult)

\* What getUniqueResults returns.
getUniqueResults(raw, cached) ==
  IF cached.is = "array" THEN cached
  ELSE IF raw.is # "array" THEN EmptyResults
  ELSE UniqueResults(raw)

\* What getUniqueResults leaves in cachedUniqueSearchResults.
CachedAfter(raw, cached) ==
  IF cached.is # "array" /\ raw.is = "array" THEN UniqueResults(raw) ELSE cached

\* The settings of resultsAsGroup: the keys of the unique results' matches.
FlatSettings(unique) ==
  LET KeysOf(r) == IF r.is = "object"
                     THEN [k \in DOMAIN r.filterMatches |-> r.filterMatches[k].key]
                     ELSE <<>>
  IN  KeysOf(unique.local) \o KeysOf(unique.remote)

\* ------------------------------------------------------------------------
\* The settings tree: data source and filter (fxdk.d.ts)
\* ------------------------------------------------------------------------

\* The table of contents given to the tree: 'editor' has child groups, of
\* which one has a setting and one has an empty list of settings; 'files' has
\* a setting; 'workbench' has an empty list of children.
Groups == {"editor", "editor/font", "editor/empty", "files", "workbench"}

TOCEntry(hasChildren, children, settings) ==
  [hasChildren |-> hasChildren, children |-> children, settings |-> settings]

Toc ==
  [g \in Groups |->
     CASE g = "editor"       -> TOCEntry(TRUE, <<"editor/font", "editor/empty">>, <<>>)
       [] g = "editor/font"  -> TOCEntry(FALSE, <<>>, <<"editor.fontSize">>)
       [] g = "editor/empty" -> TOCEntry(FALSE, <<>>, <<>>)
       [] g = "files"        -> TOCEntry(FALSE, <<>>, <<"files.autoSave">>)
       [] g = "workbench"    -> TOCEntry(TRUE, <<>>, <<>>)]

\* The targetSelector of a settings target: USER, WORKSPACE, or a folder URI.
TargetSelectors == {"user", "workspace", "workspaceFolder"}

\* inspectSetting(...).isConfigured: the inspected value of the key has the
\* target's field defined.  The configuration is the set of <<key, selector>>
\* that are defined.
inspectSetting(key, target, configuration) == <<key, target>> \in configuration

\* TreeItemType
setting == "setting"

groupTitle == "groupTitle"

\* getGroupElement, getSettingElement: the fields the filter reads.
GroupElement(group) == [type |-> groupTitle, id |-> group, isConfigured |-> FALSE]

SettingElement(key, isConfigured) ==
  [type |-> setting, id |-> key, isConfigured |-> isConfigured]

getSettingElement(key, target, configuration) ==
  SettingElement(key, inspectSetting(key, target, configuration))

\* groupHasConfiguredSetting
RECURSIVE groupHasConfiguredSetting(_, _, _)
groupHasConfiguredSetting(group, target, configuration) ==
  IF Toc[group].hasChildren
    THEN \E k \in DOMAIN Toc[group].children :
           groupHasConfiguredSetting(Toc[group].children[k], target, configuration)
    ELSE \E k \in DOMAIN Toc[group].settings :
           inspectSetting(Toc[group].settings[k], target, configuration)

\* SettingsTreeFilter.isVisible
isVisible(state, configuration, element) ==
  IF state.showConfiguredOnly /\ element.type = setting THEN element.isConfigured
  ELSE IF element.type = groupTitle /\ state.showConfiguredOnly
    THEN groupHasConfiguredSetting(element.id, state.settingsTarget, configuration)
  ELSE TRUE

\* ------------------------------------------------------------------------
\* The extension environment channel (src/unnamed/part_002)
\* ------------------------------------------------------------------------

MaxLogs == 3

\* The commands with a case in call's switch.
CaseCommands ==
  {"scanExtensions", "scanSingleExtension", "getDiagnosticInfo", "disableTelemetry",
   "logTelemetry", "flushTelemetry"}

\* The commands a client may send: those, the one whose case is commented
\* out, and one the channel never had.
Commands == CaseCommands \cup {"getEnvironmentData", "getExtensionHostExitInfo"}

\* The events a client may listen to.
ChannelEvents == {"onDidChange", ""}

\* The eventName of the arguments of logTelemetry.
EventNames == {"workbenchActionExecuted", "editorOpened"}

\* An Error with a message made of a text and the quoted name.
ChannelError(text, name) == <<text, name>>

\* What a call or a listen came to: resolved with a value, rejected with an
\* error, or thrown; and the events it passed to telemetry.publicLog.
Outcome(how, value, logged) == [how |-> how, value |-> value, logged |-> logged]

\* Mutant: call with the case of getEnvironmentData still there.
channelCallWithEnvironmentData(command, eventName) ==
  CASE command \in {"scanExtensions", "getEnvironmentData"} -> Outcome("resolved", <<"[]">>, <<>>)
    [] command = "scanSingleExtension" -> Outcome("resolved", <<"undefined">>, <<>>)
    [] command = "getDiagnosticInfo" -> Outcome("rejected", <<"not implemented">>, <<>>)
    [] command = "disableTelemetry" -> Outcome("resolved", <<"undefined">>, <<>>)
    [] command = "logTelemetry" -> Outcome("resolved", <<"undefined">>, <<eventName>>)
    [] command = "flushTelemetry" -> Outcome("resolved", <<"undefined">>, <<>>)
    [] OTHER -> Outcome("rejected", ChannelError("Invalid call", command), <<>>)

\* call(context, command, args), with eventName the args.eventName.
channelCall(command, eventName) ==
  CASE command = "scanExtensions" -> Outcome("resolved", <<"[]">>, <<>>)
    [] command = "scanSingleExtension" -> Outcome("resolved", <<"undefined">>, <<>>)
    [] command = "getDiagnosticInfo" -> Outcome("rejected", <<"not implemented">>, <<>>)
    [] command = "disableTelemetry" -> Outcome("resolved", <<"undefined">>, <<>>)
    [] command = "logTelemetry" -> Outcome("resolved", <<"undefined">>, <<eventName>>)
    [] command = "flushTelemetry" -> Outcome("resolved", <<"undefined">>, <<>>)
    [] OTHER -> Outcome("rejected", ChannelError("Invalid call", command), <<>>)

\* listen(_, event)
channelListen(event) == Outcome("thrown", ChannelError("Invalid listen", event), <<>>)

\* ------------------------------------------------------------------------
\* State
\* ------------------------------------------------------------------------

VARIABLES
  listening,  \* the server process is up and listening
  conn,       \* the HTTP exchanges being handled, one per connection slot
  sock,       \* the socket of the upgrade request being handled
  _mode,              \* GameView._mode
  _acceptInput,       \* GameView._acceptInput
  _pointerLocked,     \* GameView._pointerLocked
  _fullscreenActive,  \* GameView._fullscreenActive
  _keysState,         \* GameView._keysState, by virtual key
  _buttonsState,      \* GameView._buttonsState, by e.button
  doc,        \* the document: pointerLockElement, fullscreenElement and the
              \* requests the browser has not answered yet
  last,       \* the last DOM event or API call on the element: its type,
              \* whether preventDefault / stopPropagation were called, and
              \* the bridge calls and custom events it made, in order
  lmbHeld,    \* the user holds the left mouse button over the element: its
              \* last left-button event there was a mousedown
  host,       \* the game behind the bridge: the keys and mouse buttons it
              \* holds pressed, by the codes of the calls it received
  _credentials,  \* LocalStorageCredentialsProvider._credentials
  localStorage,  \* window.localStorage under CREDENTIALS_OPENED_KEY
  returned,      \* the last call on the credentials provider and its result
  _state,        \* _state of workbench.ts: 'init' or 'terminated'
  webSockets,    \* the sockets webSocketFactory.create returned: "none" (not
                 \* created yet), "open" or "closed" (close() was called)
  wsLast,        \* the last call on the factory or event of a socket: what
                 \* create threw, the error the socket raised, and what was
                 \* fired on the wrapped onError
  main,          \* BrowserMain.open(): its position, whether the remote agent
                 \* has a connection, whether the DOM content is loaded,
                 \* whether wtf is complete, the file service's providers by
                 \* scheme, the workspace and storage services, what was
                 \* registered and created (in order of first occurrence),
                 \* and the error open() rejected with
  rawSearchResults,           \* SearchResultModel.rawSearchResults
  cachedUniqueSearchResults,  \* SearchResultModel.cachedUniqueSearchResults
  searchLast,    \* the last call on the SearchResultModel and what it returned
  viewState,     \* ISettingsEditorViewState: settingsTarget (by its
                 \* targetSelector) and showConfiguredOnly
  configuration, \* the configuration service: the <<key, selector>> defined
  treeElements,  \* the setting elements the data source has built, by key:
                 \* "none", or the isConfigured they were built with
  filterLast,    \* the last call on the data source or the filter: the
                 \* element and what isVisible returned
  publicLog,     \* the event names given to telemetry.publicLog, in order
  channelLast    \* the last call or listen on the channel and its outcome

serverVars == <<listening, conn, sock>>

fieldVars ==
  <<_mode, _acceptInput, _pointerLocked, _fullscreenActive, _keysState, _buttonsState>>

viewVars == <<fieldVars, doc, last, lmbHeld, host>>

credentialVars == <<_credentials, localStorage, returned>>

socketVars == <<_state, webSockets, wsLast>>

searchVars == <<rawSearchResults, cachedUniqueSearchResults, searchLast>>

\* The classes modelled on their own, apart from the three programs.
treeVars == <<viewState, configuration, treeElements, filterLast>>

channelVars == <<publicLog, channelLast>>

restVars == <<searchVars, treeVars, channelVars>>

browserVars == <<credentialVars, socketVars, main, restVars>>

vars == <<serverVars, viewVars, browserVars>>

\* A connection slot: pc is the handler's position ("idle": no request;
\* "stat": awaiting fs.promises.stat; "stream": 200 written, the file is being
\* piped; "done": the response is complete; "aborted": the read stream failed).
\* stat is what fs.promises.stat settled with, once pc is past "stat".
IdleConn ==
  [pc |-> "idle", req |-> NoRequest, route |-> "none", filePath |-> <<>>,
   stat |-> ENOENT, res |-> NoResponse, logged |-> <<>>]

\* No upgrade request yet.  events: what the handler did to the socket, in
\* order (a status line written, "end": the socket ended, "handleWebSocket":
\* the socket handed to the editor runtime).
NoSocket ==
  [pc |-> "none", req |-> NoUpgrade, events |-> <<>>, accept |-> <<>>,
   deflate |-> FALSE, logged |-> <<>>]

ServerInit ==
  /\ listening = TRUE
  /\ conn = [i \in 1..MaxInFlight |-> IdleConn]
  /\ sock = NoSocket

\* What an event or API call did: see the variable last.
Did(type, prevented, stopped, calls) ==
  [type |-> type, prevented |-> prevented, stopped |-> stopped, calls |-> calls]

\* The element as constructed, connected to a document in which nothing holds
\* the pointer lock and nothing is fullscreen.
ViewInit ==
  /\ _mode = ModeControling
  /\ _acceptInput = FALSE
  /\ _pointerLocked = FALSE
  /\ _fullscreenActive = FALSE
  /\ _keysState = [k \in VirtualKeys |-> FALSE]
  /\ _buttonsState = [b \in MouseButtons |-> FALSE]
  /\ doc = [pointerLockElement |-> "none", fullscreenElement |-> "none",
            lockRequest |-> "none", fullscreenRequest |-> "none"]
  /\ last = Did("none", FALSE, FALSE, <<>>)
  /\ lmbHeld = FALSE
  /\ host = Held({}, {})

\* What a call on the credentials provider returned.
Returned(op, value) == [op |-> op, value |-> value]

\* A fresh page: the provider is constructed and the local storage holds
\* nothing yet.
CredentialsInit ==
  /\ _credentials = Undefined
  /\ localStorage = NothingStored
  /\ returned = Returned("none", Null)

WsDid(op, thrown, raised, fired) ==
  [op |-> op, thrown |-> thrown, raised |-> raised, fired |-> fired]

\* workbench.ts as loaded: _state is 'init', doStart has passed its tests of
\* _state and created the workbench, and no socket has been asked for.
SocketsInit ==
  /\ _state = "init"
  /\ webSockets = [k \in 1..MaxSockets |-> "none"]
  /\ wsLast = WsDid("none", NoError, NoError, NoError)

\* BrowserMain as constructed: open() not called yet.  pc: "new"; "providers"
\* (initServices awaits registerFileSystemProviders); "long" (it awaits the
\* workspace and storage services); "userdata" (it awaits
\* requiresInitialization); "initdata" (it awaits the initialization of the
\* required user data); "services" (initServices has resolved); "open" (open()
\* has resolved); "failed" (open() has rejected).
MainInit ==
  main = [pc |-> "new", connection |-> "unknown", dom |-> FALSE, wtf |-> FALSE,
          providers |-> [scheme \in {vscodeRemote, vscodeUserData, tmp, file} |-> "none"],
          workspace |-> "none", storage |-> "none", made |-> <<>>, error |-> ""]

\* What a call on the SearchResultModel returned: an array of results, or the
\* settings of a group.
SearchDid(op, results, settings) == [op |-> op, results |-> results, settings |-> settings]

\* A SearchResultModel as constructed: neither field is initialized.
SearchInit ==
  /\ rawSearchResults = UndefinedResults
  /\ cachedUniqueSearchResults = UndefinedResults
  /\ searchLast = SearchDid("none", UndefinedResults, <<>>)

FilterDid(op, type, id, result) == [op |-> op, type |-> type, id |-> id, result |-> result]

\* The settings editor as opened: user settings, everything shown, nothing
\* configured, and no element built yet.
TreeInit ==
  /\ viewState = [settingsTarget |-> "user", showConfiguredOnly |-> FALSE]
  /\ configuration = {}
  /\ treeElements = [key \in SettingKeys |-> "none"]
  /\ filterLast = FilterDid("none", groupTitle, "none", TRUE)

ChannelDid(op, name, outcome) == [op |-> op, name |-> name, outcome |-> outcome]

\* The channel as constructed, the telemetry service having logged nothing.
ChannelInit ==
  /\ publicLog = <<>>
  /\ channelLast = ChannelDid("none", "", Outcome("resolved", <<"undefined">>, <<>>))

RestInit == SearchInit /\ TreeInit /\ ChannelInit

BrowserInit == CredentialsInit /\ SocketsInit /\ MainInit /\ RestInit

Init == ServerInit /\ ViewInit /\ BrowserInit

\* Mutant: the handler without its try / catch.  An exception leaves the
\* request unanswered and, as an unhandled rejection, ends the process.
HandleRequestUncaught(i, reqs) ==
  /\ listening
  /\ conn[i].pc = "idle"
  /\ \E req \in reqs :
       LET out == Route(req)
           thrown == out = OnHandlerError
       IN  /\ conn' = [conn EXCEPT ![i] =
                [pc |-> IF thrown THEN "aborted" ELSE IF out.kind = "serve" THEN "stat" ELSE "done",
                 req |-> req, route |-> out.route,
                 filePath |-> IF out.kind = "serve" THEN normalize(out.filePath) ELSE <<>>,
                 stat |-> ENOENT, res |-> IF thrown THEN NoResponse ELSE out.res,
                 logged |-> IF thrown THEN <<>> ELSE out.logged]]
           /\ listening' = ~thrown
  /\ UNCHANGED <<sock, viewVars, browserVars>>

\* A request, one of reqs, arrives on slot i and the handler runs up to its
\* first await.
HandleRequest(i, reqs) ==
  /\ listening
  /\ conn[i].pc = "idle"
  /\ \E req \in reqs :
       LET out == Route(req)
       IN  conn' = [conn EXCEPT ![i] =
             [pc |-> IF out.kind = "serve" THEN "stat" ELSE "done",
              req |-> req, route |-> out.route,
              filePath |-> IF out.kind = "serve" THEN normalize(out.filePath) ELSE <<>>,
              stat |-> ENOENT, res |-> out.res, logged |-> out.logged]]
  /\ UNCHANGED <<listening, sock, viewVars, browserVars>>

\* fs.promises.stat settles and serveFile answers 304, 404 or the 200 head.
StatSettles(i, st) ==
  /\ listening
  /\ conn[i].pc = "stat"
  /\ LET res == ServeFileResponse(conn[i].req, conn[i].filePath, st)
     IN  conn' = [conn EXCEPT ![i].res = res,
                              ![i].stat = st,
                              ![i].pc = IF res.ended THEN "done" ELSE "stream",
                              ![i].logged = IF ~st.ok THEN Append(@, LogError("ENOENT")) ELSE @]
  /\ UNCHANGED <<listening, sock, viewVars, browserVars>>

\* fs.createReadStream(filePath).pipe(res) delivers the file and ends res.
StreamEnds(i) ==
  /\ listening
  /\ conn[i].pc = "stream"
  /\ conn' = [conn EXCEPT ![i].pc = "done",
                          ![i].res.body = <<"content">>,
                          ![i].res.ended = TRUE]
  /\ UNCHANGED <<listening, sock, viewVars, browserVars>>

\* The read stream emits 'error' (the file is a directory, or has gone since
\* stat).  Nothing listens for it: res is never ended, and the unhandled
\* 'error' event takes the process down unless the embedding runtime
\* installed an uncaughtException handler.
StreamFails(i, fatal) ==
  /\ listening
  /\ conn[i].pc = "stream"
  /\ conn' = [conn EXCEPT ![i].pc = "aborted"]
  /\ listening' = ~fatal
  /\ UNCHANGED <<sock, viewVars, browserVars>>

\* The exchange on slot i is over (the response is complete, or the client
\* gave up on an aborted one): the slot is free for the next request.
Release(i) ==
  /\ listening
  /\ conn[i].pc \in {"done", "aborted"}
  /\ conn' = [conn EXCEPT ![i] = IdleConn]
  /\ UNCHANGED <<listening, sock, viewVars, browserVars>>

\* An upgrade request arrives and the 'upgrade' handler runs.
HandleUpgrade ==
  /\ listening
  /\ sock.pc = "none"
  /\ \E req \in UpgradeRequests : sock' = UpgradeOutcome(req)
  /\ UNCHANGED <<listening, conn, viewVars, browserVars>>

\* socket.on('error'): an upgraded socket fails and the failure is logged.
SocketError ==
  /\ listening
  /\ sock.pc = "open"
  /\ sock' = [sock EXCEPT !.pc = "failed", !.logged = Append(@, LogError("socket failed"))]
  /\ UNCHANGED <<listening, conn, viewVars, browserVars>>

\* The socket is gone (ended by the handler, closed by the runtime or failed).
SocketCloses ==
  /\ listening
  /\ sock.pc \in {"ended", "open", "failed"}
  /\ sock' = NoSocket
  /\ UNCHANGED <<listening, conn, viewVars, browserVars>>

NextUpgrade == HandleUpgrade \/ SocketError \/ SocketCloses

SpecUpgrade == Init /\ [][NextUpgrade]_vars

\* ------------------------------------------------------------------------
\* The game-view element: handlers
\* ------------------------------------------------------------------------

\* _resetStates: every active key and button is cleared.
ResetStates ==
  /\ _keysState' = [k \in VirtualKeys |-> FALSE]
  /\ _buttonsState' = [b \in MouseButtons |-> FALSE]

\* Mutant: the handler emitting only when the element gets the lock.
PointerLockChangeCallsOnLock(pointerLocked, wasPointerLocked) ==
  IF pointerLocked /\ ~wasPointerLocked
    THEN <<setRawMouseCapture(pointerLocked),
           Call("dispatchEvent", 0, "pointerlockchange", pointerLocked)>>
    ELSE <<>>

RECURSIVE PointerLockChangeCalls(_, _)
\* What _handlePointerLockChange emits when document.pointerLockElement === this
\* is pointerLocked and _pointerLocked was wasPointerLocked.  The custom event
\* it dispatches bubbles to the document, where the same handler runs again,
\* now with _pointerLocked already updated.
PointerLockChangeCalls(pointerLocked, wasPointerLocked) ==
  IF pointerLocked # wasPointerLocked
    THEN <<setRawMouseCapture(pointerLocked),
           Call("dispatchEvent", 0, "pointerlockchange", pointerLocked)>>
           \o PointerLockChangeCalls(pointerLocked, pointerLocked)
    ELSE <<>>

\* The browser makes elem the document's pointer-lock element (granting a
\* request of the element, ending the lock on exitPointerLock or on the user's
\* Escape, or locking the pointer to another element) and fires
\* 'pointerlockchange' on the document: _handlePointerLockChange.
PointerLockChange(elem) ==
  /\ elem # doc.pointerLockElement
  /\ elem = "this" => doc.lockRequest = "request"
  /\ doc' = [doc EXCEPT !.pointerLockElement = elem, !.lockRequest = "none"]
  /\ LET pointerLocked == elem = "this"
         wasPointerLocked == _pointerLocked
         released == ~pointerLocked /\ wasPointerLocked
     IN  /\ _pointerLocked' = pointerLocked
         /\ _acceptInput' = pointerLocked
         /\ IF released THEN ResetStates ELSE UNCHANGED <<_keysState, _buttonsState>>
         /\ last' = Did("pointerlockchange", FALSE, FALSE,
                        PointerLockChangeCalls(pointerLocked, wasPointerLocked)
                          \o (IF released THEN ResetCalls(_keysState, _buttonsState) ELSE <<>>))
  /\ UNCHANGED <<_mode, _fullscreenActive, lmbHeld, serverVars, browserVars>>

\* The browser refuses a pending requestPointerLock ('pointerlockerror', which
\* the element does not listen to).
PointerLockError ==
  /\ doc.lockRequest = "request"
  /\ doc' = [doc EXCEPT !.lockRequest = "none"]
  /\ last' = Did("pointerlockerror", FALSE, FALSE, <<>>)
  /\ UNCHANGED <<fieldVars, lmbHeld, serverVars, browserVars>>

\* The browser makes elem the fullscreen element and fires 'fullscreenchange':
\* _handleFullscreenChange.
FullscreenChange(elem) ==
  /\ elem # doc.fullscreenElement
  /\ elem = "this" => doc.fullscreenRequest = "request"
  /\ doc' = [doc EXCEPT !.fullscreenElement = elem, !.fullscreenRequest = "none"]
  /\ _fullscreenActive' = (elem = "this")
  /\ last' = Did("fullscreenchange", FALSE, FALSE, <<>>)
  /\ UNCHANGED <<_mode, _acceptInput, _pointerLocked, _keysState, _buttonsState, lmbHeld, serverVars, browserVars>>

\* window 'blur': _handleWindowBlur
WindowBlur ==
  /\ ResetStates
  /\ last' = Did("blur", FALSE, FALSE, ResetCalls(_keysState, _buttonsState))
  /\ UNCHANGED <<_mode, _acceptInput, _pointerLocked, _fullscreenActive, doc, lmbHeld, serverVars, browserVars>>

\* 'mousemove': _handleMousemove when the pointer is over the element, and
\* _handleDocumentMouseMove on the document either way.
MouseMove(overElement) ==
  /\ doc' = IF _pointerLocked /\ ~overElement
              THEN [doc EXCEPT !.lockRequest = "exit"]
              ELSE doc
  /\ last' = Did("mousemove", overElement, FALSE, <<>>)
  /\ UNCHANGED <<fieldVars, lmbHeld, serverVars, browserVars>>

\* 'mousedown' on the element: _handleMousedown
MouseDown(button) ==
  LET leftMouseButton == isLMB(button)
      locks == _mode = ModeControling /\ ~_pointerLocked /\ leftMouseButton
      passes == _mode = ModeControling /\ ~locks
  IN  /\ _acceptInput' = IF _mode = ModeObserving /\ leftMouseButton THEN TRUE ELSE _acceptInput
      /\ doc' = IF locks THEN [doc EXCEPT !.lockRequest = "request"] ELSE doc
      /\ _buttonsState' = IF passes THEN [_buttonsState EXCEPT ![button] = TRUE]
                          ELSE _buttonsState
      /\ lmbHeld' = IF leftMouseButton THEN TRUE ELSE lmbHeld
      /\ last' = Did("mousedown", ~leftMouseButton, FALSE,
                     IF passes THEN <<setMouseButtonState(mapMouseButton(button), TRUE)>>
                     ELSE <<>>)
      /\ UNCHANGED <<_mode, _pointerLocked, _fullscreenActive, _keysState, serverVars, browserVars>>

\* 'mouseup' on the element: _handleMouseup
MouseUp(button) ==
  LET leftMouseButton == isLMB(button)
      resets == _mode = ModeObserving /\ leftMouseButton
      passes == _mode = ModeControling
  IN  /\ _acceptInput' = IF resets THEN FALSE ELSE _acceptInput
      /\ _keysState' = IF resets THEN [k \in VirtualKeys |-> FALSE] ELSE _keysState
      /\ _buttonsState' =
           IF resets THEN [b \in MouseButtons |-> FALSE]
           ELSE IF passes THEN [_buttonsState EXCEPT ![button] = FALSE]
           ELSE _buttonsState
      /\ lmbHeld' = IF leftMouseButton THEN FALSE ELSE lmbHeld
      /\ last' = Did("mouseup", TRUE, FALSE,
                     (IF resets THEN ResetCalls(_keysState, _buttonsState) ELSE <<>>)
                       \o (IF passes
                             THEN <<setMouseButtonState(mapMouseButton(button), FALSE)>>
                             ELSE <<>>))
      /\ UNCHANGED <<_mode, _pointerLocked, _fullscreenActive, doc, serverVars, browserVars>>

\* 'mousewheel' on the element: _handleMousewheel, with e.deltaY = deltaY
MouseWheel(deltaY) ==
  /\ last' = Did("mousewheel", TRUE, FALSE,
                 IF _acceptInput THEN <<sendMouseWheel(0 - deltaY)>> ELSE <<>>)
  /\ UNCHANGED <<fieldVars, doc, lmbHeld, serverVars, browserVars>>

\* Mutant: _handleKeydown without its test of _keysState[vk] ("Don't spam").
HandleKeydownRepeating(accepts, e) ==
  LET vk == mapKey(e.which, e.location)
      unlocks == e.key = "Escape" /\ e.shiftKey
      forwards == accepts /\ ~unlocks
  IN  /\ doc' = IF accepts /\ unlocks
                  THEN [doc EXCEPT
                          !.fullscreenRequest = IF _fullscreenActive THEN "exit" ELSE @,
                          !.lockRequest = IF _pointerLocked THEN "exit" ELSE @]
                  ELSE doc
      /\ _keysState' = IF forwards THEN [_keysState EXCEPT ![vk] = TRUE] ELSE _keysState
      /\ last' = Did("keydown", accepts, accepts,
                     IF forwards
                       THEN <<setKeyState(vk, TRUE)>>
                              \o (IF e.keyLen = 1 THEN <<setInputChar(e.key)>>
                                  ELSE IF e.keyLen > 2 THEN <<setInputChar(CharOfCode(e.which))>>
                                  ELSE <<>>)
                       ELSE <<>>)
      /\ UNCHANGED <<_mode, _acceptInput, _pointerLocked, _fullscreenActive, _buttonsState,
                     lmbHeld, serverVars, browserVars>>

\* _handleKeydown for a key event e, where accepts is what its first test,
\* of _acceptInput, finds.
HandleKeydown(accepts, e) ==
  LET vk == mapKey(e.which, e.location)
      unlocks == e.key = "Escape" /\ e.shiftKey
      forwards == accepts /\ ~unlocks /\ ~_keysState[vk]
  IN  /\ doc' = IF accepts /\ unlocks
                  THEN [doc EXCEPT
                          !.fullscreenRequest = IF _fullscreenActive THEN "exit" ELSE @,
                          !.lockRequest = IF _pointerLocked THEN "exit" ELSE @]
                  ELSE doc
      /\ _keysState' = IF forwards THEN [_keysState EXCEPT ![vk] = TRUE] ELSE _keysState
      /\ last' = Did("keydown", accepts, accepts,
                     IF forwards
                       THEN <<setKeyState(vk, TRUE)>>
                              \o (IF e.keyLen = 1 THEN <<setInputChar(e.key)>>
                                  ELSE IF e.keyLen > 2 THEN <<setInputChar(CharOfCode(e.which))>>
                                  ELSE <<>>)
                       ELSE <<>>)
      /\ UNCHANGED <<_mode, _acceptInput, _pointerLocked, _fullscreenActive, _buttonsState,
                     lmbHeld, serverVars, browserVars>>

\* Mutant: _handleKeydown without its test of _acceptInput.
KeyDownUnguarded(e) == HandleKeydown(TRUE, e)

\* 'keydown' on the document: _handleKeydown
KeyDown(e) == HandleKeydown(_acceptInput, e)

\* 'keyup' on the document: _handleKeyup
KeyUp(e) ==
  LET vk == mapKey(e.which, e.location)
  IN  /\ _keysState' = IF _acceptInput THEN [_keysState EXCEPT ![vk] = FALSE] ELSE _keysState
      /\ last' = Did("keyup", _acceptInput, _acceptInput,
                     IF _acceptInput
                       THEN <<setKeyState(vk, FALSE), setInputChar("\\0")>>
                       ELSE <<>>)
      /\ UNCHANGED <<_mode, _acceptInput, _pointerLocked, _fullscreenActive, _buttonsState,
                     doc, lmbHeld, serverVars, browserVars>>

\* The mode setter, which also dispatches 'modechange'.
SetMode(newMode) ==
  /\ _mode' = newMode
  /\ last' = Did("set mode", FALSE, FALSE, <<Call("dispatchEvent", newMode, "modechange", FALSE)>>)
  /\ UNCHANGED <<_acceptInput, _pointerLocked, _fullscreenActive, _keysState, _buttonsState,
                 doc, lmbHeld, serverVars, browserVars>>

\* enterFullscreenControlingMode()
EnterFullscreenControlingMode ==
  /\ _mode' = ModeControling
  /\ doc' = [doc EXCEPT !.lockRequest = "request", !.fullscreenRequest = "request"]
  /\ last' = Did("enterFullscreenControlingMode", FALSE, FALSE,
                 <<Call("dispatchEvent", ModeControling, "modechange", FALSE),
                   setRawMouseCapture(TRUE)>>)
  /\ UNCHANGED <<_acceptInput, _pointerLocked, _fullscreenActive, _keysState, _buttonsState,
                 lmbHeld, serverVars, browserVars>>

\* lockPointer()
LockPointer ==
  /\ doc' = IF _mode = ModeControling THEN [doc EXCEPT !.lockRequest = "request"] ELSE doc
  /\ last' = Did("lockPointer", FALSE, FALSE, <<>>)
  /\ UNCHANGED <<fieldVars, lmbHeld, serverVars, browserVars>>

\* enterFullscreen()
EnterFullscreen ==
  /\ doc' = IF _mode = ModeControling THEN [doc EXCEPT !.fullscreenRequest = "request"] ELSE doc
  /\ last' = Did("enterFullscreen", FALSE, FALSE, <<>>)
  /\ UNCHANGED <<fieldVars, lmbHeld, serverVars, browserVars>>

\* document.exitPointerLock() / document.exitFullscreen() take effect: see
\* PointerLockChange("none") and FullscreenChange("none"), which also stand
\* for the user's own Escape.
NextView ==
  \/ \E elem \in {"none", "this", "other"} : PointerLockChange(elem) /\ UNCHANGED host
  \/ PointerLockError /\ UNCHANGED host
  \/ \E elem \in {"none", "this"} : FullscreenChange(elem) /\ UNCHANGED host
  \/ WindowBlur /\ UNCHANGED host
  \/ \E overElement \in BOOLEAN : MouseMove(overElement) /\ UNCHANGED host
  \/ \E button \in MouseButtons : MouseDown(button) /\ UNCHANGED host
  \/ \E button \in MouseButtons : MouseUp(button) /\ UNCHANGED host
  \/ \E deltaY \in {-1, 1} : MouseWheel(deltaY) /\ UNCHANGED host
  \/ \E e \in KeyEvents : KeyDown(e) /\ UNCHANGED host
  \/ \E e \in KeyEvents : KeyUp(e) /\ UNCHANGED host
  \/ \E newMode \in {ModeControling, ModeObserving} : SetMode(newMode) /\ UNCHANGED host
  \/ EnterFullscreenControlingMode /\ UNCHANGED host
  \/ LockPointer /\ UNCHANGED host
  \/ EnterFullscreen /\ UNCHANGED host

\* The element by itself: what the host holds is not followed.
SpecView == Init /\ [][NextView]_vars

\* Every bridge call of the handler that ran has reached the host.
HostTold == host' = HostAfter(host, last'.calls)

\* The element with the host behind the bridge, under the events that press
\* and release keys and buttons or decide whether they are passed on: the
\* pointer lock, the blur, the mouse buttons, a character key and a modifier,
\* and the mode.
NextHost ==
  \/ \E elem \in {"none", "this"} : PointerLockChange(elem) /\ HostTold
  \/ WindowBlur /\ HostTold
  \/ \E button \in MouseButtons : MouseDown(button) /\ HostTold
  \/ \E button \in MouseButtons : MouseUp(button) /\ HostTold
  \/ \E e \in {k \in KeyEvents : k.key \in {"a", "Shift"}} : KeyDown(e) /\ HostTold
  \/ \E e \in {k \in KeyEvents : k.key \in {"a", "Shift"}} : KeyUp(e) /\ HostTold
  \/ \E newMode \in {ModeControling, ModeObserving} : SetMode(newMode) /\ HostTold

SpecHost == Init /\ [][NextHost]_vars

\* ------------------------------------------------------------------------
\* The credentials provider: calls
\* ------------------------------------------------------------------------

\* getPassword(service, account)
GetPassword(service, account) ==
  LET list == credentials(_credentials, localStorage)
  IN  /\ _credentials' = Loaded(list)
      /\ returned' = Returned("getPassword", getPassword(list, service, account))
      /\ UNCHANGED <<localStorage, socketVars, main, restVars, serverVars, viewVars>>

\* setPassword(service, account, password), which saves.
SetPassword(service, account, password) ==
  LET list == Pushed(credentials(_credentials, localStorage), service, account, password)
  IN  /\ _credentials' = Loaded(list)
      /\ localStorage' = Stringify(list)
      /\ returned' = Returned("setPassword", Null)
      /\ UNCHANGED <<socketVars, main, restVars, serverVars, viewVars>>

\* Mutant: deletePassword saving whether or not it found something.
DeletePasswordAlwaysSaves(service, account) ==
  LET list == credentials(_credentials, localStorage)
      kept == Filtered(list, service, account)
      found == Len(kept) # Len(list)
  IN  /\ _credentials' = Loaded(kept)
      /\ localStorage' = Stringify(kept)
      /\ returned' = Returned("deletePassword", IF found THEN "true" ELSE "false")
      /\ UNCHANGED <<socketVars, main, restVars, serverVars, viewVars>>

\* deletePassword(service, account), which saves when it found something.
DeletePassword(service, account) ==
  LET list == credentials(_credentials, localStorage)
      kept == Filtered(list, service, account)
      found == Len(kept) # Len(list)
  IN  /\ _credentials' = Loaded(kept)
      /\ localStorage' = IF found THEN Stringify(kept) ELSE localStorage
      /\ returned' = Returned("deletePassword", IF found THEN "true" ELSE "false")
      /\ UNCHANGED <<socketVars, main, restVars, serverVars, viewVars>>

\* The page is loaded again: a new provider over the same local storage.
Reload ==
  /\ _credentials' = Undefined
  /\ returned' = Returned("none", Null)
  /\ UNCHANGED <<localStorage, socketVars, main, restVars, serverVars, viewVars>>

NextCredentials ==
  \/ \E service \in Services, account \in Accounts \cup {NoAccount} :
       GetPassword(service, account)
  \/ \E service \in Services, account \in Accounts, password \in Passwords :
       SetPassword(service, account, password)
  \/ \E service \in Services, account \in Accounts : DeletePassword(service, account)
  \/ Reload

SpecCredentials == Init /\ [][NextCredentials]_vars

\* ------------------------------------------------------------------------
\* The web socket factory: calls and events
\* ------------------------------------------------------------------------

\* toStop is disposed: the disposable added to it sets _state.  A
\* DisposableStore disposes what it holds once.
Terminate ==
  /\ _state # "terminated"
  /\ _state' = "terminated"
  /\ wsLast' = WsDid("dispose", NoError, NoError, NoError)
  /\ UNCHANGED <<webSockets, credentialVars, main, restVars, serverVars, viewVars>>

\* webSocketFactory.create(url): it throws, or returns the next socket.
Create ==
  LET thrown == CreateThrows(_state)
      free == {k \in 1..MaxSockets : webSockets[k] = "none"}
  IN  /\ thrown # NoError \/ free # {}
      /\ webSockets' =
           IF thrown = NoError
             THEN [webSockets EXCEPT ![CHOOSE k \in free : \A h \in free : k <= h] = "open"]
             ELSE webSockets
      /\ wsLast' = WsDid("create", thrown, NoError, NoError)
      /\ UNCHANGED <<_state, credentialVars, main, restVars, serverVars, viewVars>>

\* The underlying socket of socket k raises e: the listener of socket.onError.
RaiseError(k, e) ==
  /\ webSockets[k] = "open"
  /\ wsLast' = WsDid("error", NoError, e, Fired(_state, e))
  /\ UNCHANGED <<_state, webSockets, credentialVars, main, restVars, serverVars, viewVars>>

\* close() of socket k: socket.close() and onError.dispose().
Close(k) ==
  /\ webSockets[k] = "open"
  /\ webSockets' = [webSockets EXCEPT ![k] = "closed"]
  /\ wsLast' = WsDid("close", NoError, NoError, NoError)
  /\ UNCHANGED <<_state, credentialVars, main, restVars, serverVars, viewVars>>

NextSockets ==
  \/ Terminate
  \/ Create
  \/ \E k \in 1..MaxSockets, e \in SocketErrors : RaiseError(k, e)
  \/ \E k \in 1..MaxSockets : Close(k)

SpecSockets == Init /\ [][NextSockets]_vars

\* ------------------------------------------------------------------------
\* The browser bootstrap: BrowserMain.open()
\* ------------------------------------------------------------------------

\* open() is called: initServices runs up to its await of
\* registerFileSystemProviders, which throws when the remote agent has no
\* connection and otherwise registers the tmp provider and the listener and
\* returns wtf.p.
Open(connection) ==
  /\ main.pc = "new"
  /\ main' = IF connection
               THEN [main EXCEPT !.pc = "providers",
                                 !.connection = "yes",
                                 !.providers[tmp] = "InMemoryFileSystemProvider"]
               ELSE [main EXCEPT !.pc = "failed",
                                 !.connection = "no",
                                 !.error = "No connection, achtung!"]
  /\ UNCHANGED <<credentialVars, socketVars, restVars, serverVars, viewVars>>

\* The file service fires onDidChangeFileSystemProviderRegistrations for a
\* provider of the class kind registered for scheme by code outside
\* BrowserMain.  The listener, once open() has attached it, registers the
\* user data provider and completes wtf.
RegisterProvider(scheme, kind) ==
  /\ main.providers[scheme] = "none"
  /\ LET attached == main.pc \notin {"new", "failed"}
         matches == attached /\ ListenerMatches(TRUE, kind, scheme)
         seen == IF kind = "RemoteFileSystemProvider" /\ scheme = vscodeRemote
                   THEN Noted(main.made, "remote")
                   ELSE main.made
     IN  main' = [main EXCEPT
                    !.providers = [@ EXCEPT ![scheme] = kind,
                                            ![vscodeUserData] =
                                              IF matches THEN "FileUserDataProvider" ELSE @],
                    !.made = IF matches THEN Noted(seen, "userdata") ELSE seen,
                    !.wtf = @ \/ matches]
  /\ UNCHANGED <<credentialVars, socketVars, restVars, serverVars, viewVars>>

\* The provider of scheme is disposed: the event has added = false, which the
\* listener ignores.
UnregisterProvider(scheme) ==
  /\ main.providers[scheme] # "none"
  /\ main' = [main EXCEPT !.providers[scheme] = "none"]
  /\ UNCHANGED <<credentialVars, socketVars, restVars, serverVars, viewVars>>

\* wtf.p has resolved: initServices goes on, creates the workspace service and
\* the storage service and awaits the initialization of both.
InitLongRunning ==
  /\ main.pc = "providers"
  /\ main.wtf
  /\ main' = [main EXCEPT !.pc = "long",
                          !.workspace = "initializing",
                          !.storage = "initializing",
                          !.made = Noted(Noted(@, "workspace"), "storage")]
  /\ UNCHANGED <<credentialVars, socketVars, restVars, serverVars, viewVars>>

\* workspaceService.initialize settles; a failure is logged and the service
\* is returned all the same.
WorkspaceSettles(ok) ==
  /\ main.workspace = "initializing"
  /\ main' = [main EXCEPT !.workspace = IF ok THEN "ready" ELSE "failed"]
  /\ UNCHANGED <<credentialVars, socketVars, restVars, serverVars, viewVars>>

\* storageService.initialize settles, likewise.
StorageSettles(ok) ==
  /\ main.storage = "initializing"
  /\ main' = [main EXCEPT !.storage = IF ok THEN "ready" ELSE "failed"]
  /\ UNCHANGED <<credentialVars, socketVars, restVars, serverVars, viewVars>>

\* Both are there: initServices creates the remaining services and awaits
\* userDataInitializationService.requiresInitialization().
LongRunningDone ==
  /\ main.pc = "long"
  /\ main.workspace \in {"ready", "failed"}
  /\ main.storage \in {"ready", "failed"}
  /\ main' = [main EXCEPT !.pc = "userdata"]
  /\ UNCHANGED <<credentialVars, socketVars, restVars, serverVars, viewVars>>

\* requiresInitialization() resolves with required.
RequiresInitialization(required) ==
  /\ main.pc = "userdata"
  /\ main' = [main EXCEPT !.pc = IF required THEN "initdata" ELSE "services"]
  /\ UNCHANGED <<credentialVars, socketVars, restVars, serverVars, viewVars>>

\* initializeRequiredResources and reloadLocalUserConfiguration have resolved.
UserDataInitialized ==
  /\ main.pc = "initdata"
  /\ main' = [main EXCEPT !.pc = "services"]
  /\ UNCHANGED <<credentialVars, socketVars, restVars, serverVars, viewVars>>

\* domContentLoaded() resolves.
DomContentLoaded ==
  /\ ~main.dom
  /\ main' = [main EXCEPT !.dom = TRUE]
  /\ UNCHANGED <<credentialVars, socketVars, restVars, serverVars, viewVars>>

\* Both promises of open() have resolved: the Workbench is created and
\* started, and open() resolves with the API facade.
CreateWorkbench ==
  /\ main.pc = "services"
  /\ main.dom
  /\ main' = [main EXCEPT !.pc = "open", !.made = Noted(@, "workbench")]
  /\ UNCHANGED <<credentialVars, socketVars, restVars, serverVars, viewVars>>

NextMain ==
  \/ \E connection \in BOOLEAN : Open(connection)
  \/ \E scheme \in OpenSchemes, kind \in {"RemoteFileSystemProvider", "Other"} :
       RegisterProvider(scheme, kind)
  \/ \E scheme \in OpenSchemes : UnregisterProvider(scheme)
  \/ InitLongRunning
  \/ \E ok \in BOOLEAN : WorkspaceSettles(ok)
  \/ \E ok \in BOOLEAN : StorageSettles(ok)
  \/ LongRunningDone
  \/ \E required \in BOOLEAN : RequiresInitialization(required)
  \/ UserDataInitialized
  \/ DomContentLoaded
  \/ CreateWorkbench

SpecMain == Init /\ [][NextMain]_vars

\* One connection at a time, every pathname up to MaxPathLen.
HttpRequests ==
  Requests(Pathnames(MaxPathLen), {NoParam}, {NoAuth})
    \cup Requests(RoutePathnames, PathParams, {NoAuth})

NextHttp ==
  \/ HandleRequest(1, HttpRequests)
  \/ \E st \in StatOutcomes : StatSettles(1, st)
  \/ StreamEnds(1)
  \/ \E fatal \in BOOLEAN : StreamFails(1, fatal)
  \/ Release(1)

SpecHttp == Init /\ [][NextHttp]_vars

\* Several connections at a time, one request for each route of the handler,
\* one conditional request, and remote-resource requests with and without a
\* credential.
ServerRequests ==
  {r \in Requests(RoutePathnames, PathParams \ {ArrayParam, StringParam(<<>>)}, AuthValues) :
     /\ r.pathParam # NoParam => r.pathname = REMOTE_RESOURCE
     /\ r.auth # NoAuth => r.pathname = REMOTE_RESOURCE /\ r.pathParam # NoParam
     /\ r.inm # NoHeader => r.pathname = <<"/">> /\ r.inm = Etag(CHOOSE st \in Stats : st.mtime = 1)}

NextServer ==
  \E i \in 1..MaxInFlight :
    \/ HandleRequest(i, ServerRequests)
    \/ \E st \in StatOutcomes : StatSettles(i, st)
    \/ StreamEnds(i)
    \/ \E fatal \in BOOLEAN : StreamFails(i, fatal)
    \/ Release(i)

SpecServer == Init /\ [][NextServer]_vars

\* ------------------------------------------------------------------------
\* The search result model: calls
\* ------------------------------------------------------------------------

\* Mutant: setResult without the reset of the cache.
SetResultKeepsCache(type, result) ==
  /\ rawSearchResults' =
       IF type = Local THEN ResultArray(result, rawSearchResults.remote)
                       ELSE ResultArray(rawSearchResults.local, result)
  /\ searchLast' = SearchDid("setResult", UndefinedResults, <<>>)
  /\ UNCHANGED <<cachedUniqueSearchResults, credentialVars, socketVars, main, treeVars, channelVars,
                 serverVars, viewVars>>

\* setResult(type, result)
SetResult(type, result) ==
  /\ cachedUniqueSearchResults' = NullResults
  /\ rawSearchResults' =
       IF type = Local THEN ResultArray(result, rawSearchResults.remote)
                       ELSE ResultArray(rawSearchResults.local, result)
  /\ searchLast' = SearchDid("setResult", UndefinedResults, <<>>)
  /\ UNCHANGED <<credentialVars, socketVars, main, treeVars, channelVars, serverVars, viewVars>>

\* getUniqueResults()
GetUniqueResults ==
  /\ cachedUniqueSearchResults' = CachedAfter(rawSearchResults, cachedUniqueSearchResults)
  /\ searchLast' = SearchDid("getUniqueResults",
                             getUniqueResults(rawSearchResults, cachedUniqueSearchResults),
                             <<>>)
  /\ UNCHANGED <<rawSearchResults, credentialVars, socketVars, main, treeVars, channelVars, serverVars, viewVars>>

\* getRawResults()
GetRawResults ==
  /\ searchLast' = SearchDid("getRawResults", rawSearchResults, <<>>)
  /\ UNCHANGED <<rawSearchResults, cachedUniqueSearchResults, credentialVars,
                 socketVars, main, treeVars, channelVars, serverVars, viewVars>>

\* resultsAsGroup(), which calls getUniqueResults.
ResultsAsGroup ==
  /\ cachedUniqueSearchResults' = CachedAfter(rawSearchResults, cachedUniqueSearchResults)
  /\ searchLast' =
       SearchDid("resultsAsGroup", UndefinedResults,
                 FlatSettings(getUniqueResults(rawSearchResults, cachedUniqueSearchResults)))
  /\ UNCHANGED <<rawSearchResults, credentialVars, socketVars, main, treeVars, channelVars, serverVars, viewVars>>

NextSearch ==
  \/ \E type \in {Local, Remote}, result \in SearchResults : SetResult(type, result)
  \/ GetUniqueResults
  \/ GetRawResults
  \/ ResultsAsGroup

SpecSearch == Init /\ [][NextSearch]_vars

\* ------------------------------------------------------------------------
\* The settings tree: calls on the data source and the filter
\* ------------------------------------------------------------------------

\* The editor sets viewState.settingsTarget.
SetSettingsTarget(target) ==
  /\ viewState.settingsTarget # target
  /\ viewState' = [viewState EXCEPT !.settingsTarget = target]
  /\ UNCHANGED <<configuration, treeElements, filterLast, searchVars,
                 credentialVars, socketVars, main, channelVars, serverVars, viewVars>>

\* The editor sets viewState.showConfiguredOnly.
SetShowConfiguredOnly(show) ==
  /\ viewState.showConfiguredOnly # show
  /\ viewState' = [viewState EXCEPT !.showConfiguredOnly = show]
  /\ UNCHANGED <<configuration, treeElements, filterLast, searchVars,
                 credentialVars, socketVars, main, channelVars, serverVars, viewVars>>

\* The value of key in a target is written (defined) or removed.
UpdateValue(key, target, defined) ==
  /\ (<<key, target>> \in configuration) # defined
  /\ configuration' = IF defined THEN configuration \cup {<<key, target>>}
                                 ELSE configuration \ {<<key, target>>}
  /\ UNCHANGED <<viewState, treeElements, filterLast, searchVars,
                 credentialVars, socketVars, main, channelVars, serverVars, viewVars>>

\* getChildren of a group element: group elements for its children, or setting
\* elements for its settings, built with the isConfigured of this moment.
GetChildren(group) ==
  /\ treeElements' =
       [key \in SettingKeys |->
          IF ~Toc[group].hasChildren
             /\ \E k \in DOMAIN Toc[group].settings : Toc[group].settings[k] = key
            THEN IF getSettingElement(key, viewState.settingsTarget, configuration).isConfigured
                   THEN "configured" ELSE "default"
            ELSE treeElements[key]]
  /\ filterLast' = FilterDid("getChildren", groupTitle, group, TRUE)
  /\ UNCHANGED <<viewState, configuration, searchVars,
                 credentialVars, socketVars, main, channelVars, serverVars, viewVars>>

\* The elements of the tree: every group, and the settings built so far.
TreeElements ==
  {GroupElement(g) : g \in Groups}
    \cup {SettingElement(key, treeElements[key] = "configured") :
            key \in {k \in SettingKeys : treeElements[k] # "none"}}

\* isVisible(tree, element)
IsVisible(element) ==
  /\ element \in TreeElements
  /\ filterLast' = FilterDid("isVisible", element.type, element.id,
                             isVisible(viewState, configuration, element))
  /\ UNCHANGED <<viewState, configuration, treeElements, searchVars,
                 credentialVars, socketVars, main, channelVars, serverVars, viewVars>>

NextTree ==
  \/ \E target \in TargetSelectors : SetSettingsTarget(target)
  \/ \E show \in BOOLEAN : SetShowConfiguredOnly(show)
  \/ \E key \in SettingKeys, target \in TargetSelectors, defined \in BOOLEAN :
       UpdateValue(key, target, defined)
  \/ \E group \in Groups : GetChildren(group)
  \/ \E type \in {setting, groupTitle}, id \in Groups \cup SettingKeys,
        isConfigured \in BOOLEAN :
       IsVisible([type |-> type, id |-> id, isConfigured |-> isConfigured])

SpecTree == Init /\ [][NextTree]_vars

\* ------------------------------------------------------------------------
\* The extension environment channel: calls
\* ------------------------------------------------------------------------

\* A client calls command; the arguments carry eventName.
CallChannel(command, eventName) ==
  LET outcome == channelCall(command, eventName)
  IN  /\ Len(publicLog) + Len(outcome.logged) <= MaxLogs
      /\ publicLog' = publicLog \o outcome.logged
      /\ channelLast' = ChannelDid("call", command, outcome)
      /\ UNCHANGED <<searchVars, treeVars, credentialVars, socketVars, main,
                     serverVars, viewVars>>

\* A client listens to event.
ListenChannel(event) ==
  LET outcome == channelListen(event)
  IN  /\ publicLog' = publicLog \o outcome.logged
      /\ channelLast' = ChannelDid("listen", event, outcome)
      /\ UNCHANGED <<searchVars, treeVars, credentialVars, socketVars, main,
                     serverVars, viewVars>>

NextChannel ==
  \/ \E command \in Commands, eventName \in EventNames : CallChannel(command, eventName)
  \/ \E event \in ChannelEvents : ListenChannel(event)

SpecChannel == Init /\ [][NextChannel]_vars

\* The whole program: the server's handlers, the element's, and the calls
\* on the browser side.
Next ==
  \/ NextServer \/ NextUpgrade \/ NextView \/ NextCredentials \/ NextSockets
  \/ NextMain \/ NextSearch \/ NextTree \/ NextChannel \/ NextHost

Spec == Init /\ [][Next]_vars

\* ------------------------------------------------------------------------
\* Claims
\* ------------------------------------------------------------------------

Slots == DOMAIN conn

\* The handler has handed a file of slot i to serveFile.
ServesFile(i) == conn[i].pc # "idle" /\ conn[i].filePath # <<>>

\* fs.promises.stat has settled for the file of slot i.
StatSettled(i) == ServesFile(i) /\ conn[i].pc \in {"stream", "done", "aborted"}

\* Whether the absolute file path p is APP_ROOT or lies below it.
InsideAppRoot(p) ==
  LET root == NormalizeSegs(Split(APP_ROOT), <<>>, FALSE)
      segs == NormalizeSegs(Split(p), <<>>, FALSE)
  IN  /\ Len(p) > 0
      /\ p[1] = SLASH
      /\ Len(segs) >= Len(root)
      /\ SubSeq(segs, 1, Len(root)) = root

\* C1: every file path the static route hands to serveFile lies inside
\* APP_ROOT, whatever the request pathname (with or without /static/, with
\* ".." segments, with percent-encoded dots or separators).
C1_StaticStaysInsideAppRoot ==
  \A i \in Slots :
    ServesFile(i) /\ conn[i].route = "static" => InsideAppRoot(conn[i].filePath)

\* C2: when If-None-Match equals the weak ETag of what stat yielded for the
\* file, the answer is 304 with an empty body, ended at once: no 200 head is
\* written and nothing is piped.
C2_MatchingEtagGets304 ==
  \A i \in Slots :
    StatSettled(i) /\ conn[i].stat.ok /\ conn[i].req.inm = Etag(conn[i].stat)
      => /\ conn[i].pc = "done"
         /\ conn[i].res.status = 304
         /\ conn[i].res.body = <<>>
         /\ conn[i].res.ended

C2_Witness ==
  \E i \in Slots :
    /\ StatSettled(i)
    /\ conn[i].stat.ok
    /\ conn[i].req.inm = Etag(conn[i].stat)
    /\ conn[i].res.status = 304

\* An upgrade request has been handled on the socket.
Upgraded == sock.pc # "none"

\* The request carries no usable reconnectionToken: none, an empty one, or a
\* repeated one.
NoUsableToken(req) == req.token.kind # "string" \/ req.token.val = <<>>

Rejected400 == sock.events = <<"HTTP/1.1 400 Bad Request", "end">>

Wrote101 == \E k \in DOMAIN sock.events : sock.events[k] = "HTTP/1.1 101 Web Socket Protocol Handshake"

Wrote400 == \E k \in DOMAIN sock.events : sock.events[k] = "HTTP/1.1 400 Bad Request"

HandedOver == \E k \in DOMAIN sock.events : sock.events[k] = "handleWebSocket"

\* C3: an upgrade request without a usable reconnectionToken gets the 400
\* status line and an ended socket, no 101 handshake, and is never handed to
\* vscode.handleWebSocket.
C3_NoTokenRejected ==
  Upgraded /\ NoUsableToken(sock.req) => Rejected400 /\ ~Wrote101 /\ ~HandedOver

C3_Witness ==
  /\ Upgraded
  /\ sock.req.upgrade = "websocket"
  /\ sock.req.hasUrl
  /\ sock.req.token = ArrayParam
  /\ Rejected400

\* The request was rejected by the first test of the handler.
RejectedOnHeaderCheck == Upgraded /\ sock.logged = <<LogError("failed to upgrade")>>

\* C4, first half: an upgrade request whose Upgrade header is missing or is
\* not websocket, or that has no URL, is rejected with the 400 status line and
\* an ended socket whatever its token, and is never delegated.
C4_BadHeaderRejected ==
  Upgraded /\ (sock.req.upgrade # "websocket" \/ ~sock.req.hasUrl)
    => Rejected400 /\ ~Wrote101 /\ ~HandedOver

\* C4 as stated: the first half, and a request is rejected on the header
\* check only when the Upgrade: websocket header is missing.
C4_Original ==
  /\ C4_BadHeaderRejected
  /\ RejectedOnHeaderCheck => sock.req.upgrade # "websocket"

\* C4 as amended: the first half, and a request is rejected on the header
\* check only when its Upgrade header is not websocket or it has no URL.
C4_Amended ==
  /\ C4_BadHeaderRejected
  /\ RejectedOnHeaderCheck => sock.req.upgrade # "websocket" \/ ~sock.req.hasUrl

C4_Witness ==
  /\ RejectedOnHeaderCheck
  /\ sock.req.upgrade = "h2c"
  /\ sock.req.hasUrl
  /\ ~NoUsableToken(sock.req)
  /\ Rejected400

\* C5: an upgrade request, on any path, with the websocket Upgrade header and
\* a reconnectionToken has the 101 handshake written before the socket is
\* handed to vscode.handleWebSocket, and is handed over exactly once; no
\* upgrade request gets both a 400 status line and a 101 handshake.
C5_HandshakeThenHandoff ==
  /\ Upgraded /\ sock.req.upgrade = "websocket" /\ sock.req.hasUrl /\ ~NoUsableToken(sock.req)
       => /\ Cardinality({k \in DOMAIN sock.events : sock.events[k] = "handleWebSocket"}) = 1
          /\ \E k \in DOMAIN sock.events :
               /\ sock.events[k] = "HTTP/1.1 101 Web Socket Protocol Handshake"
               /\ \A h \in DOMAIN sock.events : sock.events[h] = "handleWebSocket" => k < h
  /\ ~(Wrote400 /\ Wrote101)

C5_Witness ==
  /\ Upgraded
  /\ sock.req.pathname = <<"/", "a">>
  /\ sock.req.token = StringParam(<<"t2">>)
  /\ HandedOver
  /\ Wrote101

\* C6: a keydown delivered while _acceptInput is false calls no bridge
\* function, leaves _keysState, _buttonsState and the pointer-lock and
\* fullscreen state as they were, and neither prevents the event's default nor
\* stops its propagation.
C6_KeydownIgnoredWhileInactive ==
  [][ last'.type = "keydown" /\ ~_acceptInput
        => /\ last'.calls = <<>>
           /\ ~last'.prevented
           /\ ~last'.stopped
           /\ UNCHANGED <<fieldVars, doc>> ]_vars

C6_Witness ==
  /\ last.type = "keydown"
  /\ ~_acceptInput
  /\ last.calls = <<>>
  /\ \E k \in VirtualKeys : _keysState[k]

\* The pathname holds an escape that decodeURIComponent cannot decode.
Undecodable(pathname) == \E k \in DOMAIN pathname : pathname[k] = "%zz"

\* The request of slot i has no URL, or asks /vscode-remote-resource without a
\* single string path parameter.
BadRequest(i) ==
  \/ ~conn[i].req.hasUrl
  \/ conn[i].req.pathname = REMOTE_RESOURCE /\ conn[i].req.pathParam.kind # "string"

PlainTextError(i, status) ==
  /\ conn[i].pc = "done"
  /\ conn[i].res.status = status
  /\ conn[i].res.ctype = "text/plain"
  /\ conn[i].res.ended
  /\ conn[i].filePath = <<>>

\* C7 as stated: a request with no URL, a /vscode-remote-resource request
\* without a single string path parameter, and a request whose pathname cannot
\* be decoded are each answered 400 with a text/plain body, and no file is
\* read.
C7_Original ==
  \A i \in Slots :
    conn[i].pc # "idle" /\ (BadRequest(i) \/ Undecodable(conn[i].req.pathname))
      => PlainTextError(i, 400)

\* C7 as amended: the first two are answered 400 'Bad Request.', the
\* undecodable pathname 500 'Internal Server Error.', each with a text/plain
\* body, and no file is read.
C7_Amended ==
  \A i \in Slots :
    /\ conn[i].pc # "idle" /\ BadRequest(i)
         => PlainTextError(i, 400) /\ conn[i].res.body = <<"Bad Request.">>
    /\ conn[i].pc # "idle" /\ ~BadRequest(i) /\ Undecodable(conn[i].req.pathname)
         => PlainTextError(i, 500) /\ conn[i].res.body = <<"Internal Server Error.">>

C7_Witness ==
  \E i \in Slots :
    /\ conn[i].pc = "done"
    /\ conn[i].req.pathname = REMOTE_RESOURCE
    /\ conn[i].req.pathParam = ArrayParam
    /\ conn[i].res.status = 400

\* C8: on every route that serves a file, when stat fails the response is 404
\* with Content-Type text/plain and the body 'Not found', ended at once: no 200
\* head and no file content.
C8_MissingFileGets404 ==
  \A i \in Slots :
    StatSettled(i) /\ ~conn[i].stat.ok
      => /\ conn[i].route \in {"main", "static", "remote"}
         /\ conn[i].pc = "done"
         /\ conn[i].res.status = 404
         /\ conn[i].res.ctype = "text/plain"
         /\ conn[i].res.body = <<"Not found">>
         /\ conn[i].res.ended

C8_Witness ==
  \E i \in Slots :
    /\ StatSettled(i)
    /\ ~conn[i].stat.ok
    /\ conn[i].route = "remote"
    /\ conn[i].res.status = 404

HasErrorEntry(logged) == \E k \in DOMAIN logged : logged[k].level = "error"

\* C9: every request that ended in 400, 404 or 500, and every upgrade that got
\* the 400 status line, has an error entry in the log.
C9_EveryErrorLogged ==
  /\ \A i \in Slots :
       conn[i].pc = "done" /\ conn[i].res.status \in {400, 404, 500}
         => HasErrorEntry(conn[i].logged)
  /\ Upgraded /\ Wrote400 => HasErrorEntry(sock.logged)

\* The response of a finished exchange is a function of its request and of
\* what stat yielded for it, whatever else the server handled.
ResponsesDetermined ==
  \A i, j \in Slots :
    /\ conn[i].pc = "done"
    /\ conn[j].pc = "done"
    /\ conn[i].req = conn[j].req
    /\ conn[i].stat = conn[j].stat
    => conn[i].res = conn[j].res

IsAbsolute(p) == Len(p) > 0 /\ p[1] = SLASH

\* Slot i handles GET /vscode-remote-resource?path=P, P one string that is an
\* absolute path.
RemoteRequest(i) ==
  /\ conn[i].pc # "idle"
  /\ conn[i].req.hasUrl
  /\ conn[i].req.pathname = REMOTE_RESOURCE
  /\ conn[i].req.pathParam.kind = "string"
  /\ IsAbsolute(conn[i].req.pathParam.val)

\* What the client has of the exchange on slot i so far.
Answer(i) == <<conn[i].pc, conn[i].route, conn[i].filePath, conn[i].res>>

\* C11: GET /vscode-remote-resource?path=P with one string P is taken by the
\* remote-resource route, never by a static route, and serves the file at P
\* itself (normalized, not joined to APP_ROOT): 404 when stat fails, else 304
\* or 200 as for any served file; and two such requests that differ only in
\* the credential they carry get the same answer.
C11_RemoteResourceUnconfinedNoAuth ==
  /\ \A i \in Slots :
       RemoteRequest(i)
         => /\ conn[i].route = "remote"
            /\ conn[i].filePath = normalize(conn[i].req.pathParam.val)
            /\ conn[i].pc \in {"stat", "stream", "done", "aborted"}
            /\ StatSettled(i) =>
                 conn[i].res.status =
                   ServeFileResponse(conn[i].req, conn[i].filePath, conn[i].stat).status
  /\ \A i, j \in Slots :
       /\ RemoteRequest(i)
       /\ RemoteRequest(j)
       /\ conn[i].req.pathParam = conn[j].req.pathParam
       /\ conn[i].req.inm = conn[j].req.inm
       /\ conn[i].stat = conn[j].stat
       /\ conn[i].pc = conn[j].pc
       => Answer(i) = Answer(j)

C11_Witness ==
  \E i, j \in Slots :
    /\ RemoteRequest(i)
    /\ RemoteRequest(j)
    /\ conn[i].req.auth = NoAuth
    /\ conn[j].req.auth # NoAuth
    /\ conn[i].req.pathParam = conn[j].req.pathParam
    /\ ~InsideAppRoot(conn[i].filePath)
    /\ conn[i].pc = "done"
    /\ conn[j].pc = "done"
    /\ conn[i].res.status = 200
    /\ conn[j].res.status = 200

\* The bridge function fn is among the calls.
CallsFn(calls, fn) == \E k \in DOMAIN calls : calls[k].fn = fn

\* C12: while the mode is observing, no event on the element (mousedown,
\* mouseup, window blur, pointer-lock change, or any other) calls
\* setMouseButtonState, whatever was pressed before the mode became observing.
C12_NoButtonStateWhileObserving ==
  _mode = ModeObserving => ~CallsFn(last.calls, "setMouseButtonState")

\* C13: in observing mode _acceptInput is true only while the left button is
\* held over the element (after a left mousedown there and before the next
\* left mouseup), and a key event calls setKeyState or setInputChar only then.
C13_ObservingCapturesOnlyWhileHeld ==
  _mode = ModeObserving
    => /\ _acceptInput => lmbHeld
       /\ /\ last.type \in {"keydown", "keyup"}
          /\ CallsFn(last.calls, "setKeyState") \/ CallsFn(last.calls, "setInputChar")
          => lmbHeld

\* The Shift+Escape keydown.
ShiftEscape == CHOOSE e \in KeyEvents : e.key = "Escape" /\ e.shiftKey

\* C14: a Shift+Escape keydown while the pointer is locked to the element
\* requests document.exitPointerLock, and document.exitFullscreen when
\* fullscreen is active, and calls neither setKeyState nor setInputChar.
C14_ShiftEscapeReleases ==
  [][ _pointerLocked /\ KeyDown(ShiftEscape)
        => /\ doc'.lockRequest = "exit"
           /\ _fullscreenActive => doc'.fullscreenRequest = "exit"
           /\ ~CallsFn(last'.calls, "setKeyState")
           /\ ~CallsFn(last'.calls, "setInputChar") ]_vars

\* What getPassword(service, account) returns with the provider's field cached
\* and the local storage stored.
Lookup(cached, stored, service, account) ==
  getPassword(credentials(cached, stored), service, account)

\* Every pair but (service, account) looks up after the step what it did
\* before it.
OthersKeep(service, account) ==
  \A s \in Services, a \in Accounts :
    <<s, a>> # <<service, account>>
      => Lookup(_credentials', localStorage', s, a) = Lookup(_credentials, localStorage, s, a)

\* C15: the store is a keyed lookup on (service, account).  setPassword(s, a, p)
\* makes getPassword(s, a) return p and deletePassword(s, a) makes it return
\* null, each leaving every other pair's result alone; getPassword returns
\* that result and changes none; and a reload of the page changes none.
C15_KeyedLookup ==
  [][ \A s \in Services, a \in Accounts :
        /\ \A p \in Passwords :
             SetPassword(s, a, p)
               => Lookup(_credentials', localStorage', s, a) = p /\ OthersKeep(s, a)
        /\ DeletePassword(s, a)
             => Lookup(_credentials', localStorage', s, a) = Null /\ OthersKeep(s, a)
        /\ GetPassword(s, a)
             => /\ returned'.value = Lookup(_credentials, localStorage, s, a)
                /\ Lookup(_credentials', localStorage', s, a) = returned'.value
                /\ OthersKeep(s, a)
        /\ Reload
             => Lookup(_credentials', localStorage', s, a)
                  = Lookup(_credentials, localStorage, s, a) ]_vars

\* A password set over an older one of the same pair, with other pairs stored
\* before and after it, has just been read back.
C15_Witness ==
  /\ returned = Returned("getPassword", "p2")
  /\ Len(_credentials.list) = 3
  /\ _credentials.list[3] = Credential("s1", "a1", "p2")
  /\ _credentials.list[1].service = "s1"
  /\ localStorage = Stringify(_credentials.list)

\* C16: once _state is 'terminated' it stays so; webSocketFactory.create then
\* throws a RemoteAuthorityResolverError with code NotAvailable and returns no
\* socket; and whatever a socket created earlier raises is fired on its
\* wrapped onError as a RemoteAuthorityResolverError with code NotAvailable.
C16_TerminatedNeverReconnects ==
  [][ /\ _state = "terminated" => _state' = "terminated"
      /\ _state' = "terminated" /\ wsLast'.op = "create"
           => /\ wsLast'.thrown.resolver
              /\ wsLast'.thrown.code = NotAvailable
              /\ webSockets' = webSockets
      /\ _state' = "terminated" /\ wsLast'.op = "error"
           => /\ wsLast'.fired.resolver
              /\ wsLast'.fired.code = NotAvailable ]_vars

\* A socket created before the stop raised an error that carried
\* TemporarilyNotAvailable, after the stop.
C16_Witness ==
  /\ _state = "terminated"
  /\ wsLast.op = "error"
  /\ wsLast.raised = ResolverError("Browser is offline", TemporarilyNotAvailable)
  /\ wsLast.fired.code = NotAvailable
  /\ \E k \in 1..MaxSockets : webSockets[k] = "closed"

Called(calls, call) == \E k \in DOMAIN calls : calls[k] = call

\* C18: a keydown for a virtual key that is recorded as down calls no bridge
\* function; setKeyState(vk, true) is called only when vk is recorded as up,
\* and records it as down; and vk goes from down to up only in a step that
\* calls setKeyState(vk, false).  So between two setKeyState(vk, true) there
\* is always a setKeyState(vk, false).
C18_KeydownNotRepeated ==
  [][ \A vk \in VirtualKeys :
        /\ \A e \in KeyEvents :
             mapKey(e.which, e.location) = vk /\ _keysState[vk] /\ KeyDown(e)
               => last'.calls = <<>>
        /\ Called(last'.calls, setKeyState(vk, TRUE))
             => ~_keysState[vk] /\ _keysState'[vk]
        /\ _keysState[vk] /\ ~_keysState'[vk]
             => Called(last'.calls, setKeyState(vk, FALSE)) ]_vars

\* An accepted keydown that made no call and was no Shift+Escape (which would
\* have asked to end the pointer lock): the repeat of a key that is down.
C18_Witness ==
  /\ last = Did("keydown", TRUE, TRUE, <<>>)
  /\ _acceptInput
  /\ _pointerLocked
  /\ doc.lockRequest # "exit"
  /\ _keysState[65]

\* How many of the calls are call.
Times(calls, call) == Cardinality({k \in DOMAIN calls : calls[k] = call})

\* How many of the calls are calls of fn with the string argument str.
TimesFn(calls, fn, str) ==
  Cardinality({k \in DOMAIN calls : calls[k].fn = fn /\ calls[k].s = str})

\* C19: a document pointerlockchange that changes whether the element holds
\* the lock calls setRawMouseCapture once, with the new state, and dispatches
\* the element's 'pointerlockchange' event once, with the new state; one that
\* does not change it does neither.  The handler's second run, on the
\* element's own event reaching the document, adds nothing.
C19_LockChangeEmittedOnce ==
  [][ \A elem \in {"none", "this", "other"} :
        PointerLockChange(elem)
          => LET calls == last'.calls
                 changed == _pointerLocked' # _pointerLocked
                 n == IF changed THEN 1 ELSE 0
             IN  /\ TimesFn(calls, "setRawMouseCapture", "") = n
                 /\ Times(calls, setRawMouseCapture(_pointerLocked')) = n
                 /\ TimesFn(calls, "dispatchEvent", "pointerlockchange") = n
                 /\ Times(calls, Call("dispatchEvent", 0, "pointerlockchange", _pointerLocked')) = n
                 /\ _pointerLocked' = (elem = "this") ]_vars

\* The element lost the lock with a key down: one setRawMouseCapture(false),
\* one event, then the release of the key.
C19_Witness ==
  /\ last.type = "pointerlockchange"
  /\ ~_pointerLocked
  /\ Len(last.calls) = 4
  /\ last.calls[1] = setRawMouseCapture(FALSE)
  /\ last.calls[2] = Call("dispatchEvent", 0, "pointerlockchange", FALSE)
  /\ last.calls[4].fn = "setKeyState"

\* x is in seq.
Made(seq, x) == \E k \in DOMAIN seq : seq[k] = x

\* x is in seq and y is not before it.
MadeBefore(seq, x, y) ==
  \E k \in DOMAIN seq : seq[k] = x /\ \A h \in 1..(k - 1) : seq[h] # y

\* C20: the workspace service, the storage service and the Workbench are
\* created only after the vscode-userdata provider is registered, and that
\* only after a RemoteFileSystemProvider is registered for vscode-remote; so
\* open() is past registerFileSystemProviders, or resolved, only if that
\* registration occurred.  Without a connection open() rejects with 'No
\* connection, achtung!' and none of them is created; and open() rejects in no
\* other case.
C20_OpenWaitsForRemoteProvider ==
  /\ \A x \in {"workspace", "storage", "workbench"} :
       Made(main.made, x) => MadeBefore(main.made, "userdata", x)
  /\ Made(main.made, "userdata") => MadeBefore(main.made, "remote", "userdata")
  /\ main.providers[vscodeUserData] # "none" <=> Made(main.made, "userdata")
  /\ main.pc \in {"long", "userdata", "initdata", "services", "open"}
       => Made(main.made, "remote") /\ main.wtf
  /\ main.pc = "open" <=> Made(main.made, "workbench")
  /\ main.connection = "no"
       => /\ main.pc = "failed"
          /\ main.error = "No connection, achtung!"
          /\ \A x \in {"userdata", "workspace", "storage", "workbench"} : ~Made(main.made, x)
  /\ main.pc = "failed" => main.connection = "no"

C20_Witness ==
  /\ main.pc = "open"
  /\ main.made = <<"remote", "userdata", "workspace", "storage", "workbench">>
  /\ main.storage = "failed"
  /\ main.providers[vscodeRemote] = "none"

\* A credential for (service, account) is in list.
Existed(list, service, account) ==
  \E k \in 1..Len(list) : list[k].service = service /\ list[k].account = account

\* C21: after every setPassword, and after every deletePassword that removed
\* a credential, the local storage entry is the JSON text of the in-memory
\* list; a deletePassword that matches nothing returns false, writes nothing
\* and leaves the list as it was; and deletePassword returns true exactly when
\* a credential for (service, account) existed.
C21_StorageFollowsList ==
  [][/\ \A service \in Services, account \in Accounts, password \in Passwords :
          SetPassword(service, account, password)
            => /\ _credentials'.loaded
               /\ localStorage' = Stringify(_credentials'.list)
               /\ Parse(localStorage') = _credentials'.list
     /\ \A service \in Services, account \in Accounts :
          DeletePassword(service, account)
            => LET list == credentials(_credentials, localStorage)
                   existed == Existed(list, service, account)
               IN  /\ returned'.value = (IF existed THEN "true" ELSE "false")
                   /\ existed => /\ localStorage' = Stringify(_credentials'.list)
                                 /\ ~Existed(_credentials'.list, service, account)
                   /\ ~existed => /\ localStorage' = localStorage
                                  /\ _credentials'.list = list]_vars

C21_Witness ==
  /\ returned = Returned("deletePassword", "true")
  /\ Len(_credentials.list) = 1
  /\ localStorage = Stringify(_credentials.list)

\* The keys of the matches of a result (none for undefined and null).
MatchKeys(r) == {r.filterMatches[k].key : k \in DOMAIN r.filterMatches}

\* q is p without the matches whose key is in keys, in p's order.
RECURSIVE Without(_, _)
Without(p, keys) ==
  IF p = <<>> THEN <<>>
  ELSE IF Head(p).key \in keys THEN Without(Tail(p), keys)
  ELSE <<Head(p)>> \o Without(Tail(p), keys)

\* unique is what the claim asks of the raw results: the local result as it
\* is, the remote one minus the matches whose key is a local one.
UniqueOf(unique, raw) ==
  /\ unique.is = "array"
  /\ unique.local = raw.local
  /\ unique.remote.is = raw.remote.is
  /\ unique.remote.filterMatches =
       Without(raw.remote.filterMatches, MatchKeys(raw.local))
  /\ MatchKeys(unique.local) \cap MatchKeys(unique.remote) = {}

\* C22: once setResult has been called, getUniqueResults returns the latest
\* local result unchanged and the latest remote result minus every match
\* whose key is in the local one, so that no key is in both; the cache is
\* never one computed before the last setResult; and the raw results are left
\* as setResult stored them.
C22_UniqueResultsAreFresh ==
  /\ cachedUniqueSearchResults.is = "array"
       => UniqueOf(cachedUniqueSearchResults, rawSearchResults)
  /\ searchLast.op = "getUniqueResults" /\ rawSearchResults.is = "array"
       => UniqueOf(searchLast.results, rawSearchResults)
  /\ searchLast.op = "getRawResults" => searchLast.results = rawSearchResults
  /\ searchLast.op = "getUniqueResults" /\ rawSearchResults.is # "array"
       => searchLast.results = EmptyResults

C22_Witness ==
  /\ searchLast.op = "getUniqueResults"
  /\ rawSearchResults.is = "array"
  /\ rawSearchResults.local.is = "object"
  /\ rawSearchResults.remote.is = "object"
  /\ Len(rawSearchResults.remote.filterMatches) = 2
  /\ Len(searchLast.results.remote.filterMatches) = 1
  /\ cachedUniqueSearchResults = searchLast.results

\* The settings in the subtree of a group, as the data source unfolds it.
RECURSIVE SubtreeSettings(_)
SubtreeSettings(group) ==
  IF Toc[group].hasChildren
    THEN UNION {SubtreeSettings(Toc[group].children[k]) : k \in DOMAIN Toc[group].children}
    ELSE {Toc[group].settings[k] : k \in DOMAIN Toc[group].settings}

\* What the claim asks isVisible to return for an element.
ShownByClaim(element) ==
  \/ ~viewState.showConfiguredOnly
  \/ /\ element.type = setting
     /\ inspectSetting(element.id, viewState.settingsTarget, configuration)
  \/ /\ element.type = groupTitle
     /\ \E key \in SubtreeSettings(element.id) :
          inspectSetting(key, viewState.settingsTarget, configuration)

\* C23: with showConfiguredOnly, isVisible shows a setting element exactly
\* when the setting is configured in the current target and a group exactly
\* when a setting of its subtree is; a visible group whose subtree is built
\* has a visible setting element in it; without showConfiguredOnly
\* everything is visible.
C23_ShowsExactlyTheConfigured ==
  [][\A element \in TreeElements :
       IsVisible(element)
         => /\ filterLast'.result = ShownByClaim(element)
            /\ /\ element.type = groupTitle
               /\ viewState.showConfiguredOnly
               /\ filterLast'.result
               /\ \A key \in SubtreeSettings(element.id) : treeElements[key] # "none"
               => \E below \in TreeElements :
                    /\ below.type = setting
                    /\ below.id \in SubtreeSettings(element.id)
                    /\ isVisible(viewState, configuration, below)]_vars

\* C24: call rejects with "Invalid call '<command>'" for every command without
\* a case, getEnvironmentData among them; listen throws for every event; and
\* telemetry.publicLog is reached by logTelemetry alone, once per call.
C24_ChannelStub ==
  [][/\ \A command \in Commands, eventName \in EventNames :
          CallChannel(command, eventName)
            => /\ command \notin CaseCommands
                    => /\ channelLast'.outcome.how = "rejected"
                       /\ channelLast'.outcome.value = <<"Invalid call", command>>
               /\ publicLog' = IF command = "logTelemetry"
                                 THEN Append(publicLog, eventName)
                                 ELSE publicLog
     /\ \A event \in ChannelEvents :
          ListenChannel(event)
            => /\ channelLast'.outcome.how = "thrown"
               /\ publicLog' = publicLog]_vars

C24_Witness ==
  /\ channelLast.op = "call"
  /\ channelLast.name = "getEnvironmentData"
  /\ channelLast.outcome.how = "rejected"
  /\ Len(publicLog) = 2

\* The last event was a window blur, or a pointerlockchange by which the
\* element lost the pointer lock.
BlurOrLockLoss ==
  \/ last.type = "blur"
  \/ /\ last.type = "pointerlockchange"
     /\ CallsFn(last.calls, "setRawMouseCapture")
     /\ ~_pointerLocked

\* C25: after a window blur or a loss of pointer lock the host holds no key
\* and no mouse button: whatever it was told is pressed it has been told
\* released, with the same code.
C25_HostSeesNothingHeld ==
  BlurOrLockLoss => host = Held({}, {})

\* C26: in controlling mode the element accepts keyboard and wheel input
\* only while the pointer is locked to it.
C26_ControlingAcceptsOnlyWhileLocked ==
  _mode = ModeControling /\ _acceptInput
    => _pointerLocked /\ doc.pointerLockElement = "this"
====
